---- MODULE Spec2Model ----
(***************************************************************************)
(* Model of the file-analysis core of DocuLens                             *)
(* (backend/app/services/file_analyzer.py): the dispatcher                 *)
(* FileAnalyzer.analyze and the analyzers analyze_python, analyze_sql,     *)
(* analyze_notebook and analyze_javascript.                                *)
(*                                                                         *)
(* A Python str is a sequence of one-character strings, so that the        *)
(* regular expressions, str.upper/lower/strip/split and the substring      *)
(* tests of the source act on characters as they do in the code.           *)
(***************************************************************************)
EXTENDS Integers, Sequences, FiniteSets, TLC

(***************************************************************************)
(* Characters and the str methods the analyzers use                        *)
(***************************************************************************)
LowerCs == <<"a","b","c","d","e","f","g","h","i","j","k","l","m","n","o","p","q","r","s","t","u","v","w","x","y","z">>
UpperCs == <<"A","B","C","D","E","F","G","H","I","J","K","L","M","N","O","P","Q","R","S","T","U","V","W","X","Y","Z">>
DigitCs == <<"0","1","2","3","4","5","6","7","8","9">>

LowerSet == {LowerCs[k] : k \in 1..Len(LowerCs)}
UpperSet == {UpperCs[k] : k \in 1..Len(UpperCs)}
DigitSet == {DigitCs[k] : k \in 1..Len(DigitCs)}
WordSet == LowerSet \cup UpperSet \cup DigitSet \cup {"_"}
SpaceSet == {" ", "\t", "\n", "\r", "\f"}

CharIndex(c, tbl) == CHOOSE k \in 1..Len(tbl) : tbl[k] = c

upper_char(c) == IF c \in LowerSet THEN UpperCs[CharIndex(c, LowerCs)] ELSE c

lower_char(c) == IF c \in UpperSet THEN LowerCs[CharIndex(c, UpperCs)] ELSE c

\* str.upper()
str_upper(s) == [k \in 1..Len(s) |-> upper_char(s[k])]

\* str.lower()
str_lower(s) == [k \in 1..Len(s) |-> lower_char(s[k])]

\* str.isupper(): at least one cased character and no lower-case one
str_isupper(s) ==
    /\ \E k \in 1..Len(s) : s[k] \in UpperSet
    /\ \A k \in 1..Len(s) : s[k] \notin LowerSet

RECURSIVE LStrip(_)
LStrip(s) == IF s # <<>> /\ Head(s) \in SpaceSet THEN LStrip(Tail(s)) ELSE s

RECURSIVE RStrip(_)
RStrip(s) ==
    IF s # <<>> /\ s[Len(s)] \in SpaceSet THEN RStrip(SubSeq(s, 1, Len(s) - 1)) ELSE s

\* str.strip()
str_strip(s) == RStrip(LStrip(s))

\* s[a:b] with 1-based a and exclusive b
Slice(s, a, b) == SubSeq(s, a, b - 1)

\* sub in s
Contains(s, sub) ==
    \E i \in 1..(Len(s) - Len(sub) + 1) : SubSeq(s, i, i + Len(sub) - 1) = sub

\* s.startswith(pre)
StartsWith(s, pre) == Len(s) >= Len(pre) /\ SubSeq(s, 1, Len(pre)) = pre

\* Body of the value v: what LET v == ... IN Body is, with v computed once
With(v, Body(_)) == Body(v)

\* a loop of at most n steps from the state st, stopped when Done holds
RECURSIVE Loop(_, _, _, _)
Loop(Step(_), Done(_), st, n) ==
    IF n = 0 \/ Done(st) THEN st
    ELSE IF n = 1 THEN Step(st)
    ELSE Loop(Step, Done, Loop(Step, Done, st, n \div 2), n - n \div 2)

\* s.count(c) for a single character c
CountChar(s, c) == Cardinality({k \in 1..Len(s) : s[k] = c})

\* s.split(sep) for a single-character separator: always at least one piece
str_split(s, sep) ==
    LET n == CountChar(s, sep)
        cut(k) == IF k = 0 THEN 0
                  ELSE IF k = n + 1 THEN Len(s) + 1
                  ELSE CHOOSE p \in 1..Len(s) :
                           s[p] = sep /\ CountChar(SubSeq(s, 1, p), sep) = k
    IN  [k \in 1..(n + 1) |-> SubSeq(s, cut(k - 1) + 1, cut(k) - 1)]

\* ''.join(parts)
RECURSIVE str_join(_)
str_join(parts) ==
    IF parts = <<>> THEN <<>>
    ELSE IF Len(parts) = 1 THEN parts[1]
    ELSE str_join(SubSeq(parts, 1, Len(parts) \div 2))
           \o str_join(SubSeq(parts, Len(parts) \div 2 + 1, Len(parts)))

\* [f for f in xs if f != ''] and other order-preserving helpers
RECURSIVE DropEmpty(_)
DropEmpty(xs) ==
    IF xs = <<>> THEN <<>>
    ELSE (IF Head(xs) = <<>> THEN <<>> ELSE <<Head(xs)>>) \o DropEmpty(Tail(xs))

MapStrip(xs) == [k \in 1..Len(xs) |-> str_strip(xs[k])]

Range(xs) == {xs[k] : k \in 1..Len(xs)}

\* xs[:n]
Take(xs, n) == SubSeq(xs, 1, IF Len(xs) < n THEN Len(xs) ELSE n)

(***************************************************************************)
(* Python's re module: a backtracking matcher over the pattern's syntax    *)
(* tree.  A pattern is a sequence of nodes; Run matches the nodes left to  *)
(* right and returns the first match in priority order (greedy             *)
(* quantifiers longest first, lazy ones shortest first, alternatives left  *)
(* to right), which is the match re reports.                               *)
(***************************************************************************)
Cls(set) == [t |-> "chr", neg |-> FALSE, set |-> set]
NotCls(set) == [t |-> "chr", neg |-> TRUE, set |-> set]
Dot == NotCls({"\n"})
DotAll == NotCls({})
WordCls == Cls(WordSet)
SpaceCls == Cls(SpaceSet)
Lit(cs) == [t |-> "lit", cs |-> cs]
Rep(cls, min, greedy) == [t |-> "rep", cls |-> cls, min |-> min, greedy |-> greedy]
Star(cls) == Rep(cls, 0, TRUE)
Plus(cls) == Rep(cls, 1, TRUE)
LazyStar(cls) == Rep(cls, 0, FALSE)
LazyPlus(cls) == Rep(cls, 1, FALSE)
Opt(body) == [t |-> "opt", body |-> body]
Alt(alts) == [t |-> "alt", alts |-> alts]
Grp(n, body) == [t |-> "grp", n |-> n, body |-> body]
WB == [t |-> "wb"]
BOL == [t |-> "bol"]
EOL == [t |-> "eol"]

\* re.compile(pattern, flags): groups is the number of capture groups
Regex(nodes, groups, ignorecase, multiline) ==
    [nodes |-> nodes, groups |-> groups, I |-> ignorecase, M |-> multiline]

ClassHas(c, cls, ic) ==
    LET in == \/ c \in cls.set
              \/ ic /\ (upper_char(c) \in cls.set \/ lower_char(c) \in cls.set)
    IN  in # cls.neg

LitAt(s, i, cs, ic) ==
    /\ i + Len(cs) - 1 <= Len(s)
    /\ \A k \in 1..Len(cs) :
          IF ic THEN upper_char(s[i + k - 1]) = upper_char(cs[k])
                ELSE s[i + k - 1] = cs[k]

IsWordAt(s, i) == i >= 1 /\ i <= Len(s) /\ s[i] \in WordSet

Least(set) == CHOOSE x \in set : \A y \in set : x <= y
Greatest(set) == CHOOSE x \in set : \A y \in set : x >= y

\* the length of the longest run of class characters starting at i
RunLen(s, i, cls, ic) ==
    IF i > Len(s) THEN 0
    ELSE Least({n \in 0..(Len(s) + 1 - i) : i + n > Len(s) \/ ~ClassHas(s[i + n], cls, ic)})

NoMatch == [ok |-> FALSE, end |-> 0, caps |-> <<>>]

RECURSIVE Run(_, _, _, _, _)
RECURSIVE TryRep(_, _, _, _, _, _, _)
RECURSIVE TryAlt(_, _, _, _, _, _)

Run(k, s, i, caps, re) ==
    IF k = <<>> THEN [ok |-> TRUE, end |-> i, caps |-> caps]
    ELSE
      LET h == Head(k)
          rest == Tail(k)
      IN  CASE h.t = "chr" ->
                 IF i <= Len(s) /\ ClassHas(s[i], h, re.I)
                 THEN Run(rest, s, i + 1, caps, re) ELSE NoMatch
            [] h.t = "lit" ->
                 IF LitAt(s, i, h.cs, re.I)
                 THEN Run(rest, s, i + Len(h.cs), caps, re) ELSE NoMatch
            [] h.t = "rep" ->
                 LET mx == RunLen(s, i, h.cls, re.I)
                 IN  IF mx < h.min THEN NoMatch
                     ELSE TryRep(rest, s, i, h.min..mx, h.greedy, caps, re)
            [] h.t = "opt" ->
                 LET r == Run(h.body \o rest, s, i, caps, re)
                 IN  IF r.ok THEN r ELSE Run(rest, s, i, caps, re)
            [] h.t = "alt" -> TryAlt(h.alts, rest, s, i, caps, re)
            [] h.t = "grp" ->
                 Run(h.body \o <<[t |-> "end", n |-> h.n, from |-> i]>> \o rest,
                     s, i, caps, re)
            [] h.t = "end" ->
                 Run(rest, s, i, [caps EXCEPT ![h.n] = <<h.from, i>>], re)
            [] h.t = "wb" ->
                 IF IsWordAt(s, i - 1) # IsWordAt(s, i)
                 THEN Run(rest, s, i, caps, re) ELSE NoMatch
            [] h.t = "bol" ->
                 IF i = 1 \/ (re.M /\ s[i - 1] = "\n")
                 THEN Run(rest, s, i, caps, re) ELSE NoMatch
            [] h.t = "eol" ->
                 IF \/ i = Len(s) + 1
                    \/ i = Len(s) /\ s[i] = "\n"
                    \/ re.M /\ i <= Len(s) /\ s[i] = "\n"
                 THEN Run(rest, s, i, caps, re) ELSE NoMatch

\* a quantified class taking one of the counts: the largest count after
\* which the rest of the pattern matches when greedy, the smallest when lazy
TryRep(rest, s, i, counts, greedy, caps, re) ==
    LET good == {n \in counts : Run(rest, s, i + n, caps, re).ok}
    IN  IF good = {} THEN NoMatch
        ELSE Run(rest, s, i + (IF greedy THEN Greatest(good) ELSE Least(good)), caps, re)

TryAlt(alts, rest, s, i, caps, re) ==
    IF alts = <<>> THEN NoMatch
    ELSE LET r == Run(Head(alts) \o rest, s, i, caps, re)
         IN  IF r.ok THEN r ELSE TryAlt(Tail(alts), rest, s, i, caps, re)

\* pattern.match at position i (an unset group is <<0, 0>>)
MatchAt(re, s, i) == Run(re.nodes, s, i, [g \in 1..re.groups |-> <<0, 0>>], re)

\* re.finditer(pattern, s): the non-overlapping matches, leftmost first;
\* starts holds the positions at which the pattern matches
RECURSIVE FindFrom(_, _, _, _)
FindFrom(re, s, i, starts) ==
    LET later == {j \in starts : j >= i}
        j == Least(later)
        r == MatchAt(re, s, j)
    IN  IF later = {} THEN <<>>
        ELSE <<[start |-> j, end |-> r.end, caps |-> r.caps]>>
               \o FindFrom(re, s, IF r.end > j THEN r.end ELSE j + 1, starts)

re_finditer(re, s) == FindFrom(re, s, 1, {j \in 1..(Len(s) + 1) : MatchAt(re, s, j).ok})

\* match.group(g): '' stands for a group that did not take part
Group(s, m, g) == Slice(s, m.caps[g][1], m.caps[g][2])

\* match.group(0)
Group0(s, m) == Slice(s, m.start, m.end)

\* re.findall(pattern, s): group 1 of each match when the pattern has one
\* group, the whole match when it has none
re_findall(re, s) ==
    LET ms == re_finditer(re, s)
    IN  [k \in 1..Len(ms) |->
            IF re.groups = 0 THEN Group0(s, ms[k]) ELSE Group(s, ms[k], 1)]

\* re.search(pattern, s) is not None
re_search(re, s) == re_finditer(re, s) # <<>>

(***************************************************************************)
(* list(set(xs)): the distinct elements of xs in the iteration order of a  *)
(* CPython set, which is the slot order of its hash table.  The slot of a  *)
(* string comes from its hash, and str hashes are keyed by the process's   *)
(* hash seed (PYTHONHASHSEED, random per process by default); colliding    *)
(* entries keep their insertion order.                                     *)
(***************************************************************************)
CodeTable == LowerCs \o UpperCs \o DigitCs \o <<" ","_",".","=","(",")",",",";","*","\n">>

CharCode(c) ==
    IF \E k \in 1..Len(CodeTable) : CodeTable[k] = c THEN CharIndex(c, CodeTable) ELSE 0

StrHash(s, h) ==
    Loop(LAMBDA st : [i |-> st.i + 1, h |-> (st.h * 31 + CharCode(s[st.i]) + 7) % 251],
         LAMBDA st : st.i > Len(s), [i |-> 1, h |-> h], Len(s)).h

SetSlot(x, seed) == StrHash(x, seed * 97 + 1) % 8

RECURSIVE Dedup(_, _)
Dedup(xs, seen) ==
    IF xs = <<>> THEN <<>>
    ELSE IF Head(xs) \in seen THEN Dedup(Tail(xs), seen)
    ELSE <<Head(xs)>> \o Dedup(Tail(xs), seen \cup {Head(xs)})

RECURSIVE InsertBySlot(_, _, _)
InsertBySlot(sorted, x, seed) ==
    IF sorted = <<>> THEN <<x>>
    ELSE IF SetSlot(x, seed) < SetSlot(Head(sorted), seed) THEN <<x>> \o sorted
    ELSE <<Head(sorted)>> \o InsertBySlot(Tail(sorted), x, seed)

RECURSIVE SortBySlot(_, _)
SortBySlot(xs, seed) ==
    IF xs = <<>> THEN <<>>
    ELSE InsertBySlot(SortBySlot(SubSeq(xs, 1, Len(xs) - 1), seed), xs[Len(xs)], seed)

ListOfSet(xs, seed) == SortBySlot(Dedup(xs, {}), seed)

(***************************************************************************)
(* analyze_sql                                                             *)
(***************************************************************************)
Ident1Cls == Cls(LowerSet \cup UpperSet \cup {"_"})
IdentDotCls == Cls(LowerSet \cup UpperSet \cup DigitSet \cup {"_", "."})
IdentCls == Cls(LowerSet \cup UpperSet \cup DigitSet \cup {"_"})

\* r'\b(?:FROM|JOIN)\s+([a-zA-Z_][a-zA-Z0-9_\.]*)', re.IGNORECASE
tables_pattern ==
    Regex(<<WB, Alt(<< <<Lit(<<"F","R","O","M">>)>>, <<Lit(<<"J","O","I","N">>)>> >>), Plus(SpaceCls),
            Grp(1, <<Ident1Cls, Star(IdentDotCls)>>)>>, 1, TRUE, FALSE)

\* r'CREATE\s+(?:OR\s+REPLACE\s+)?(?:TEMP\s+|TEMPORARY\s+)?TABLE\s+
\*   (?:IF\s+NOT\s+EXISTS\s+)?([a-zA-Z_][a-zA-Z0-9_\.]*)', re.IGNORECASE
create_pattern ==
    Regex(<<Lit(<<"C","R","E","A","T","E">>), Plus(SpaceCls),
            Opt(<<Lit(<<"O","R">>), Plus(SpaceCls), Lit(<<"R","E","P","L","A","C","E">>), Plus(SpaceCls)>>),
            Opt(<<Alt(<< <<Lit(<<"T","E","M","P">>), Plus(SpaceCls)>>,
                         <<Lit(<<"T","E","M","P","O","R","A","R","Y">>), Plus(SpaceCls)>> >>)>>),
            Lit(<<"T","A","B","L","E">>), Plus(SpaceCls),
            Opt(<<Lit(<<"I","F">>), Plus(SpaceCls), Lit(<<"N","O","T">>), Plus(SpaceCls),
                  Lit(<<"E","X","I","S","T","S">>), Plus(SpaceCls)>>),
            Grp(1, <<Ident1Cls, Star(IdentDotCls)>>)>>, 1, TRUE, FALSE)

\* r'(?:INSERT\s+INTO|UPDATE|DELETE\s+FROM)\s+([a-zA-Z_][a-zA-Z0-9_\.]*)', re.IGNORECASE
modify_pattern ==
    Regex(<<Alt(<< <<Lit(<<"I","N","S","E","R","T">>), Plus(SpaceCls), Lit(<<"I","N","T","O">>)>>,
                   <<Lit(<<"U","P","D","A","T","E">>)>>,
                   <<Lit(<<"D","E","L","E","T","E">>), Plus(SpaceCls), Lit(<<"F","R","O","M">>)>> >>),
            Plus(SpaceCls), Grp(1, <<Ident1Cls, Star(IdentDotCls)>>)>>, 1, TRUE, FALSE)

\* r'WITH\s+([a-zA-Z_][a-zA-Z0-9_]*)\s+AS\s*\(', re.IGNORECASE
cte_pattern ==
    Regex(<<Lit(<<"W","I","T","H">>), Plus(SpaceCls), Grp(1, <<Ident1Cls, Star(IdentCls)>>),
            Plus(SpaceCls), Lit(<<"A","S">>), Star(SpaceCls), Lit(<<"(">>)>>, 1, TRUE, FALSE)

\* r'\b((?:LEFT|RIGHT|INNER|OUTER|CROSS|FULL)?\s*JOIN)\b', re.IGNORECASE
join_pattern ==
    Regex(<<WB,
            Grp(1, <<Opt(<<Alt(<< <<Lit(<<"L","E","F","T">>)>>, <<Lit(<<"R","I","G","H","T">>)>>, <<Lit(<<"I","N","N","E","R">>)>>,
                                  <<Lit(<<"O","U","T","E","R">>)>>, <<Lit(<<"C","R","O","S","S">>)>>, <<Lit(<<"F","U","L","L">>)>> >>)>>),
                     Star(SpaceCls), Lit(<<"J","O","I","N">>)>>),
            WB>>, 1, TRUE, FALSE)

\* r'\b(SUM|COUNT|AVG|MIN|MAX|GROUP_CONCAT|STRING_AGG)\s*\(', re.IGNORECASE
agg_pattern ==
    Regex(<<WB,
            Grp(1, <<Alt(<< <<Lit(<<"S","U","M">>)>>, <<Lit(<<"C","O","U","N","T">>)>>, <<Lit(<<"A","V","G">>)>>,
                            <<Lit(<<"M","I","N">>)>>, <<Lit(<<"M","A","X">>)>>, <<Lit(<<"G","R","O","U","P","_","C","O","N","C","A","T">>)>>,
                            <<Lit(<<"S","T","R","I","N","G","_","A","G","G">>)>> >>)>>),
            Star(SpaceCls), Lit(<<"(">>)>>, 1, TRUE, FALSE)

\* a pattern that wants SELECT right after the parenthesis
subquery_pattern_adjacent == Regex(<<Lit(<<"(">>), Lit(<<"S","E","L","E","C","T">>)>>, 0, TRUE, FALSE)

\* r'\(\s*SELECT', re.IGNORECASE
subquery_pattern == Regex(<<Lit(<<"(">>), Star(SpaceCls), Lit(<<"S","E","L","E","C","T">>)>>, 0, TRUE, FALSE)

\* r'--\s*(.+)$', re.MULTILINE
single_line_pattern ==
    Regex(<<Lit(<<"-","-">>), Star(SpaceCls), Grp(1, <<Plus(Dot)>>), EOL>>, 1, FALSE, TRUE)

\* r'/\*(.+?)\*/', re.DOTALL
multi_line_pattern ==
    Regex(<<Lit(<<"/","*">>), Grp(1, <<LazyPlus(DotAll)>>), Lit(<<"*","/">>)>>, 1, FALSE, FALSE)

\* the keywords tested with `in content_upper`, in the order of the if statements
StatementKeywords ==
    <<<<"S","E","L","E","C","T">>, <<"I","N","S","E","R","T">>, <<"U","P","D","A","T","E">>, <<"D","E","L","E","T","E">>, <<"C","R","E","A","T","E"," ","T","A","B","L","E">>, <<"C","R","E","A","T","E"," ","V","I","E","W">>,
      <<"A","L","T","E","R">>, <<"D","R","O","P">>>>

RECURSIVE KeywordsIn(_, _)
KeywordsIn(kws, text) ==
    IF kws = <<>> THEN <<>>
    ELSE (IF Contains(text, Head(kws)) THEN <<Head(kws)>> ELSE <<>>)
         \o KeywordsIn(Tail(kws), text)

sql_statement_types(text) == KeywordsIn(StatementKeywords, str_upper(text))

\* joins = [j.strip() for j in joins if j.strip()]
sql_joins(text) == DropEmpty(MapStrip(re_findall(join_pattern, text)))

sql_aggregations(text, seed) == ListOfSet(re_findall(agg_pattern, text), seed)

\* the comments without the limit of the final slice
sql_comments_unlimited(text) ==
    re_findall(single_line_pattern, text)
        \o MapStrip(re_findall(multi_line_pattern, text))

\* comments = single_line + [c.strip() for c in multi_line]; comments[:10]
sql_comments(text) ==
    Take(re_findall(single_line_pattern, text)
         \o MapStrip(re_findall(multi_line_pattern, text)), 10)

\* what a call returns: a dict, or an exception that leaves the call
NoDict == [file_type |-> "none"]
Returned(d) == [ret |-> d, exc |-> "none"]
Raised(e) == [ret |-> NoDict, exc |-> e]

\* SQLAnalysis(...).to_dict()
SQLAnalysis(text, path, seed) ==
    [file_path |-> path,
     file_type |-> "sql",
     tables_referenced |-> ListOfSet(re_findall(tables_pattern, text), seed),
     tables_created |-> ListOfSet(re_findall(create_pattern, text), seed),
     tables_modified |-> ListOfSet(re_findall(modify_pattern, text), seed),
     ctes |-> re_findall(cte_pattern, text),
     joins |-> sql_joins(text),
     aggregations |-> sql_aggregations(text, seed),
     subqueries |-> Len(re_findall(subquery_pattern, text)),
     statement_types |-> sql_statement_types(text),
     comments |-> sql_comments(text)]

\* an analyzer that, as analyze_python and analyze_notebook do, answers a text
\* in which it finds no statement with an error envelope
analyze_sql_strict(text, path, seed) ==
    IF sql_statement_types(text) = <<>>
    THEN Returned([file_path |-> path, file_type |-> "sql", error |-> <<"N","o"," ","S","Q","L"," ","s","t","a","t","e","m","e","n","t">>])
    ELSE Returned(SQLAnalysis(text, path, seed))

analyze_sql(text, path, seed) == Returned(SQLAnalysis(text, path, seed))

(***************************************************************************)
(* The dataclasses FunctionInfo and ClassInfo as asdict() renders them.    *)
(* An Optional[str] is None or a string: None is <<>>, a string s is <<s>>.*)
(***************************************************************************)
None == <<>>
Some(x) == <<x>>

FunctionInfo(name, args, docstring, decorators, returns, line_number, is_async) ==
    [name |-> name, args |-> args, docstring |-> docstring, decorators |-> decorators,
     returns |-> returns, line_number |-> line_number, is_async |-> is_async]

ClassInfo(name, bases, docstring, methods, line_number) ==
    [name |-> name, bases |-> bases, docstring |-> docstring, methods |-> methods,
     line_number |-> line_number]

(***************************************************************************)
(* analyze_javascript                                                      *)
(***************************************************************************)
QuoteCls == Cls({"\"", "'"})
NotQuoteCls == NotCls({"\"", "'"})
UpperCls == Cls(UpperSet)
DeclKeyword == Alt(<< <<Lit(<<"c","o","n","s","t">>)>>, <<Lit(<<"l","e","t">>)>>, <<Lit(<<"v","a","r">>)>> >>)

\* r'import\s+.*?from\s+["\']([^"\']+)["\']'
import_from_pattern ==
    Regex(<<Lit(<<"i","m","p","o","r","t">>), Plus(SpaceCls), LazyStar(Dot), Lit(<<"f","r","o","m">>), Plus(SpaceCls),
            QuoteCls, Grp(1, <<Plus(NotQuoteCls)>>), QuoteCls>>, 1, FALSE, FALSE)

\* r'import\s*\(["\']([^"\']+)["\']\)'
import_call_pattern ==
    Regex(<<Lit(<<"i","m","p","o","r","t">>), Star(SpaceCls), Lit(<<"(">>), QuoteCls,
            Grp(1, <<Plus(NotQuoteCls)>>), QuoteCls, Lit(<<")">>)>>, 1, FALSE, FALSE)

\* r'require\s*\(["\']([^"\']+)["\']\)'
require_pattern ==
    Regex(<<Lit(<<"r","e","q","u","i","r","e">>), Star(SpaceCls), Lit(<<"(">>), QuoteCls,
            Grp(1, <<Plus(NotQuoteCls)>>), QuoteCls, Lit(<<")">>)>>, 1, FALSE, FALSE)

import_patterns == <<import_from_pattern, import_call_pattern, require_pattern>>

\* r'export\s+(?:default\s+)?(?:function|class|const|let|var)\s+(\w+)'
export_decl_pattern ==
    Regex(<<Lit(<<"e","x","p","o","r","t">>), Plus(SpaceCls),
            Opt(<<Lit(<<"d","e","f","a","u","l","t">>), Plus(SpaceCls)>>),
            Alt(<< <<Lit(<<"f","u","n","c","t","i","o","n">>)>>, <<Lit(<<"c","l","a","s","s">>)>>, <<Lit(<<"c","o","n","s","t">>)>>,
                   <<Lit(<<"l","e","t">>)>>, <<Lit(<<"v","a","r">>)>> >>),
            Plus(SpaceCls), Grp(1, <<Plus(WordCls)>>)>>, 1, FALSE, FALSE)

\* r'export\s*\{\s*([^}]+)\s*\}'
export_list_pattern ==
    Regex(<<Lit(<<"e","x","p","o","r","t">>), Star(SpaceCls), Lit(<<"{">>), Star(SpaceCls),
            Grp(1, <<Plus(NotCls({"}"}))>>), Star(SpaceCls), Lit(<<"}">>)>>, 1, FALSE, FALSE)

\* r'module\.exports\s*=': no group, so findall yields the matched text itself
module_exports_pattern ==
    Regex(<<Lit(<<"m","o","d","u","l","e",".","e","x","p","o","r","t","s">>), Star(SpaceCls), Lit(<<"=">>)>>, 0, FALSE, FALSE)

export_patterns == <<export_decl_pattern, export_list_pattern, module_exports_pattern>>

\* r'(?:async\s+)?function\s+(\w+)\s*\(([^)]*)\)'
func_pattern ==
    Regex(<<Opt(<<Lit(<<"a","s","y","n","c">>), Plus(SpaceCls)>>), Lit(<<"f","u","n","c","t","i","o","n">>), Plus(SpaceCls),
            Grp(1, <<Plus(WordCls)>>), Star(SpaceCls), Lit(<<"(">>),
            Grp(2, <<Star(NotCls({")"}))>>), Lit(<<")">>)>>, 2, FALSE, FALSE)

\* r'(?:const|let|var)\s+(\w+)\s*=\s*(?:async\s+)?\([^)]*\)\s*=>'
arrow_pattern ==
    Regex(<<DeclKeyword, Plus(SpaceCls), Grp(1, <<Plus(WordCls)>>), Star(SpaceCls),
            Lit(<<"=">>), Star(SpaceCls), Opt(<<Lit(<<"a","s","y","n","c">>), Plus(SpaceCls)>>),
            Lit(<<"(">>), Star(NotCls({")"})), Lit(<<")">>), Star(SpaceCls), Lit(<<"=",">">>)>>,
          1, FALSE, FALSE)

\* r'class\s+(\w+)(?:\s+extends\s+(\w+))?'
class_pattern ==
    Regex(<<Lit(<<"c","l","a","s","s">>), Plus(SpaceCls), Grp(1, <<Plus(WordCls)>>),
            Opt(<<Plus(SpaceCls), Lit(<<"e","x","t","e","n","d","s">>), Plus(SpaceCls),
                  Grp(2, <<Plus(WordCls)>>)>>)>>, 2, FALSE, FALSE)

\* r'(?:const|let|var)\s+([A-Z][A-Z0-9_]+)\s*='
const_pattern ==
    Regex(<<DeclKeyword, Plus(SpaceCls),
            Grp(1, <<UpperCls, Plus(Cls(UpperSet \cup DigitSet \cup {"_"}))>>),
            Star(SpaceCls), Lit(<<"=">>)>>, 1, FALSE, FALSE)

\* a component pattern that leaves function declarations to the functions
jsx_pattern_const_only ==
    Regex(<<Lit(<<"c","o","n","s","t">>), Plus(SpaceCls), Grp(1, <<UpperCls, Plus(WordCls)>>)>>,
          1, FALSE, FALSE)

\* r'(?:function|const)\s+([A-Z]\w+)'
jsx_pattern ==
    Regex(<<Alt(<< <<Lit(<<"f","u","n","c","t","i","o","n">>)>>, <<Lit(<<"c","o","n","s","t">>)>> >>), Plus(SpaceCls),
            Grp(1, <<UpperCls, Plus(WordCls)>>)>>, 1, FALSE, FALSE)

\* the hook pattern without the call that must follow the name, under which a
\* name is a hook used wherever it is written
hook_pattern_without_call ==
    Regex(<<WB, Grp(1, <<Lit(<<"u","s","e">>), UpperCls, Plus(WordCls)>>)>>, 1, FALSE, FALSE)

\* r'\b(use[A-Z]\w+)\s*\('
hook_pattern ==
    Regex(<<WB, Grp(1, <<Lit(<<"u","s","e">>), UpperCls, Plus(WordCls)>>), Star(SpaceCls),
            Lit(<<"(">>)>>, 1, FALSE, FALSE)

\* for pattern in patterns: out.extend(re.findall(pattern, content))
RECURSIVE FindAllOfEach(_, _)
FindAllOfEach(patterns, text) ==
    IF patterns = <<>> THEN <<>>
    ELSE re_findall(Head(patterns), text) \o FindAllOfEach(Tail(patterns), text)

\* for m in matches: exports.extend([e.strip() for e in m.split(',')])
RECURSIVE SplitEach(_)
SplitEach(ms) ==
    IF ms = <<>> THEN <<>>
    ELSE MapStrip(str_split(Head(ms), ",")) \o SplitEach(Tail(ms))

js_exports(text) == SplitEach(FindAllOfEach(export_patterns, text))

\* content[:match.start()].count('\n') + 1
LineOf(text, m) == CountChar(SubSeq(text, 1, m.start - 1), "\n") + 1

\* [a.strip() for a in match.group(2).split(',') if a.strip()]
js_args(params) == DropEmpty(MapStrip(str_split(params, ",")))

\* the functions with the async keyword of a declaration recorded
js_functions_async_recorded(text) ==
    LET fs == re_finditer(func_pattern, text)
        as == re_finditer(arrow_pattern, text)
    IN  [k \in 1..Len(fs) |->
            FunctionInfo(Group(text, fs[k], 1), js_args(Group(text, fs[k], 2)),
                         None, <<>>, None, LineOf(text, fs[k]),
                         StartsWith(Group0(text, fs[k]), <<"a","s","y","n","c">>))]
        \o
        [k \in 1..Len(as) |->
            FunctionInfo(Group(text, as[k], 1), <<>>, None, <<>>, None,
                         LineOf(text, as[k]), FALSE)]

js_functions(text) ==
    LET fs == re_finditer(func_pattern, text)
        as == re_finditer(arrow_pattern, text)
    IN  [k \in 1..Len(fs) |->
            FunctionInfo(Group(text, fs[k], 1), js_args(Group(text, fs[k], 2)),
                         None, <<>>, None, LineOf(text, fs[k]), FALSE)]
        \o
        [k \in 1..Len(as) |->
            FunctionInfo(Group(text, as[k], 1), <<>>, None, <<>>, None,
                         LineOf(text, as[k]), FALSE)]

js_classes(text) ==
    LET cs == re_finditer(class_pattern, text)
    IN  [k \in 1..Len(cs) |->
            ClassInfo(Group(text, cs[k], 1),
                      IF Group(text, cs[k], 2) # <<>> THEN <<Group(text, cs[k], 2)>>
                      ELSE <<>>,
                      None, <<>>, LineOf(text, cs[k]))]

js_hooks_used(text, seed) == ListOfSet(re_findall(hook_pattern, text), seed)

analyze_javascript(text, path, seed) ==
    Returned([file_path |-> path,
              file_type |-> "javascript",
              imports |-> ListOfSet(FindAllOfEach(import_patterns, text), seed),
              exports |-> ListOfSet(js_exports(text), seed),
              functions |-> js_functions(text),
              classes |-> js_classes(text),
              constants |-> ListOfSet(re_findall(const_pattern, text), seed),
              jsx_components |-> ListOfSet(re_findall(jsx_pattern, text), seed),
              hooks_used |-> js_hooks_used(text, seed)])

(***************************************************************************)
(* json.loads: the decoder of the standard library, on characters.         *)
(* A decoded value is tagged with its Python type: dict (its items in      *)
(* insertion order), list, str, and num/bool/NoneType for the rest.        *)
(* Each nested array or object enters one more level of recursion; past    *)
(* the interpreter's recursion limit the decoder raises RecursionError,    *)
(* which is not a JSONDecodeError.                                         *)
(***************************************************************************)
JDict(items) == [k |-> "dict", v |-> items]
JList(xs) == [k |-> "list", v |-> xs]
JStr(cs) == [k |-> "str", v |-> cs]
JNum(cs) == [k |-> "num", v |-> cs]
JBool(cs) == [k |-> "bool", v |-> cs]
JNull == [k |-> "NoneType", v |-> <<>>]

JOk(v, e) == [st |-> "ok", val |-> v, end |-> e, msg |-> <<>>, pos |-> 0]
\* JSONDecodeError(msg, doc, pos): pos is the 0-based index of the error
JErr(m, i) == [st |-> "JSONDecodeError", val |-> <<>>, end |-> 0, msg |-> m, pos |-> i - 1]
JRec == [st |-> "RecursionError", val |-> <<>>, end |-> 0, msg |-> <<>>, pos |-> 0]

JsonWsCls == Cls({" ", "\t", "\n", "\r"})
DigitCls == Cls(DigitSet)
HexCls == Cls(DigitSet \cup {"a", "b", "c", "d", "e", "f", "A", "B", "C", "D", "E", "F"})
ControlSet == {"\t", "\n", "\r", "\f"}

SkipWs(s, i) == i + RunLen(s, i, JsonWsCls, FALSE)

CharAt(s, i) == IF i >= 1 /\ i <= Len(s) THEN s[i] ELSE ""

\* str(n) for n >= 0
RECURSIVE IntText(_)
IntText(n) ==
    IF n < 10 THEN <<DigitCs[n + 1]>> ELSE IntText(n \div 10) \o <<DigitCs[(n % 10) + 1]>>

\* the 1-based index of the last newline before 0-based pos, or 0
LastNewline(s, pos) == Greatest({0} \cup {p \in 1..pos : s[p] = "\n"})

\* str(e) of a JSONDecodeError: '%s: line %d column %d (char %d)'
JsonErrorText(s, e) ==
    e.msg \o <<":"," ","l","i","n","e"," ">> \o IntText(CountChar(SubSeq(s, 1, e.pos), "\n") + 1)
          \o <<" ","c","o","l","u","m","n"," ">> \o IntText(e.pos + 1 - LastNewline(s, e.pos))
          \o <<" ","(","c","h","a","r"," ">> \o IntText(e.pos) \o <<")">>

\* the character an escape stands for; "\\b" is the backspace character and
\* "\\u" a character given by its code point, both outside every class used here
Unescape(c) ==
    CASE c = "n" -> "\n" [] c = "t" -> "\t" [] c = "r" -> "\r" [] c = "f" -> "\f"
      [] c = "b" -> "\\b" [] OTHER -> c

\* scanstring(s, begin + 1, strict=True): begin is at the opening quote, j at
\* the next character to read
ScanStep(s, begin, j, acc) ==
    IF j > Len(s) THEN JErr(<<"U","n","t","e","r","m","i","n","a","t","e","d"," ","s","t","r","i","n","g"," ","s","t","a","r","t","i","n","g"," ","a","t">>, begin)
    ELSE IF s[j] = "\"" THEN JOk(acc, j + 1)
    ELSE IF s[j] = "\\" THEN
        IF j + 1 > Len(s) THEN JErr(<<"U","n","t","e","r","m","i","n","a","t","e","d"," ","s","t","r","i","n","g"," ","s","t","a","r","t","i","n","g"," ","a","t">>, begin)
        ELSE IF s[j + 1] \in {"\"", "\\", "/", "b", "f", "n", "r", "t"}
             THEN [j |-> j + 2, acc |-> Append(acc, Unescape(s[j + 1]))]
        ELSE IF s[j + 1] = "u"
             THEN IF RunLen(s, j + 2, HexCls, FALSE) >= 4
                  THEN [j |-> j + 6, acc |-> Append(acc, "\\u")]
                  ELSE JErr(<<"I","n","v","a","l","i","d"," ","\\","u","X","X","X","X"," ","e","s","c","a","p","e">>, j + 1)
        ELSE JErr(<<"I","n","v","a","l","i","d"," ","\\","e","s","c","a","p","e">>, j)
    ELSE IF s[j] \in ControlSet THEN JErr(<<"I","n","v","a","l","i","d"," ","c","o","n","t","r","o","l"," ","c","h","a","r","a","c","t","e","r"," ","a","t">>, j)
    ELSE [j |-> j + 1, acc |-> Append(acc, s[j])]

ScanString(s, begin, j, acc) ==
    Loop(LAMBDA st : ScanStep(s, begin, st.j, st.acc), LAMBDA st : "st" \in DOMAIN st,
         [j |-> j, acc |-> acc], Len(s) + 1)

\* NUMBER_RE: (-?(?:0|[1-9]\d*))(\.\d+)?([eE][-+]?\d+)?; 0 when none starts at i
\* the end of the digits of the integer part that starts at a, a when none
IntEnd(s, a) == IF CharAt(s, a) = "0" THEN a + 1 ELSE a + RunLen(s, a, DigitCls, FALSE)

\* the end of the fraction that may start at b
FracEnd(s, b) ==
    IF CharAt(s, b) = "." /\ RunLen(s, b + 1, DigitCls, FALSE) > 0
    THEN b + 1 + RunLen(s, b + 1, DigitCls, FALSE) ELSE b

\* the end of the exponent that may start at c, its digits starting at x
ExpEnd(s, c, x) ==
    IF CharAt(s, c) \in {"e", "E"} /\ RunLen(s, x, DigitCls, FALSE) > 0
    THEN x + RunLen(s, x, DigitCls, FALSE) ELSE c

NumberFrom(s, a, b) ==
    IF b = a THEN 0
    ELSE With(FracEnd(s, b), LAMBDA c :
             ExpEnd(s, c, IF CharAt(s, c + 1) \in {"+", "-"} THEN c + 2 ELSE c + 1))

NumberStart(s, a) == NumberFrom(s, a, IntEnd(s, a))

NumberEnd(s, i) == NumberStart(s, IF CharAt(s, i) = "-" THEN i + 1 ELSE i)

\* d[key] = value: a repeated key keeps its place and takes the later value
DictSet(items, key, val) ==
    IF \E k \in 1..Len(items) : items[k].key = key
    THEN [k \in 1..Len(items) |->
             IF items[k].key = key THEN [key |-> key, val |-> val] ELSE items[k]]
    ELSE Append(items, [key |-> key, val |-> val])

\* after the result r of the decoder: the failure r, or Rest of the success r
JThen(r, Rest(_)) == IF r.st = "ok" THEN Rest(r) ELSE r

RECURSIVE ScanOnce(_, _, _, _)
RECURSIVE ObjectMembers(_, _, _, _, _)
RECURSIVE ArrayItems(_, _, _, _, _)

\* the number that ends before j, or the failure when j = 0
NumberOr(s, i, j) ==
    IF j > 0 THEN JOk(JNum(Slice(s, i, j)), j) ELSE JErr(<<"E","x","p","e","c","t","i","n","g"," ","v","a","l","u","e">>, i)

\* a container that opens at i - 1, its first token at j
OpenObject(s, j, d, limit) ==
    IF d >= limit THEN JRec
    ELSE IF CharAt(s, j) = "}" THEN JOk(JDict(<<>>), j + 1)
    ELSE ObjectMembers(s, j, d + 1, limit, <<>>)

OpenArray(s, j, d, limit) ==
    IF d >= limit THEN JRec
    ELSE IF CharAt(s, j) = "]" THEN JOk(JList(<<>>), j + 1)
    ELSE ArrayItems(s, j, d + 1, limit, <<>>)

\* scan_once(s, i) with d containers open; limit is the recursion limit
ScanOnce(s, i, d, limit) ==
    CASE CharAt(s, i) = "\"" ->
           JThen(ScanString(s, i, i + 1, <<>>), LAMBDA r : JOk(JStr(r.val), r.end))
      [] CharAt(s, i) = "{" -> OpenObject(s, SkipWs(s, i + 1), d, limit)
      [] CharAt(s, i) = "[" -> OpenArray(s, SkipWs(s, i + 1), d, limit)
      [] LitAt(s, i, <<"n","u","l","l">>, FALSE) -> JOk(JNull, i + 4)
      [] LitAt(s, i, <<"t","r","u","e">>, FALSE) -> JOk(JBool(<<"t","r","u","e">>), i + 4)
      [] LitAt(s, i, <<"f","a","l","s","e">>, FALSE) -> JOk(JBool(<<"f","a","l","s","e">>), i + 5)
      [] LitAt(s, i, <<"N","a","N">>, FALSE) -> JOk(JNum(<<"N","a","N">>), i + 3)
      [] LitAt(s, i, <<"I","n","f","i","n","i","t","y">>, FALSE) -> JOk(JNum(<<"I","n","f","i","n","i","t","y">>), i + 8)
      [] LitAt(s, i, <<"-","I","n","f","i","n","i","t","y">>, FALSE) -> JOk(JNum(<<"-","I","n","f","i","n","i","t","y">>), i + 9)
      [] OTHER -> NumberOr(s, i, NumberEnd(s, i))

\* after a member of an object, j being at the next token
AfterMember(s, j, d, limit, items) ==
    IF CharAt(s, j) = "}" THEN JOk(JDict(items), j + 1)
    ELSE IF CharAt(s, j) = "," THEN ObjectMembers(s, SkipWs(s, j + 1), d, limit, items)
    ELSE JErr(<<"E","x","p","e","c","t","i","n","g"," ","'",",","'"," ","d","e","l","i","m","i","t","e","r">>, j)

\* the value of the member with the given key, the ':' expected at j
MemberValue(s, j, d, limit, items, key) ==
    IF CharAt(s, j) # ":" THEN JErr(<<"E","x","p","e","c","t","i","n","g"," ","'",":","'"," ","d","e","l","i","m","i","t","e","r">>, j)
    ELSE JThen(ScanOnce(s, SkipWs(s, j + 1), d, limit), LAMBDA val :
             AfterMember(s, SkipWs(s, val.end), d, limit, DictSet(items, key, val.val)))

\* JSONObject after '{' or ',': i is at the next key
ObjectMembers(s, i, d, limit, items) ==
    IF CharAt(s, i) # "\"" THEN JErr(<<"E","x","p","e","c","t","i","n","g"," ","p","r","o","p","e","r","t","y"," ","n","a","m","e"," ","e","n","c","l","o","s","e","d"," ","i","n"," ","d","o","u","b","l","e"," ","q","u","o","t","e","s">>, i)
    ELSE JThen(ScanString(s, i, i + 1, <<>>), LAMBDA key :
             MemberValue(s, SkipWs(s, key.end), d, limit, items, key.val))

\* after an item of an array, j being at the next token
AfterItem(s, j, d, limit, xs) ==
    IF CharAt(s, j) = "]" THEN JOk(JList(xs), j + 1)
    ELSE IF CharAt(s, j) = "," THEN ArrayItems(s, SkipWs(s, j + 1), d, limit, xs)
    ELSE JErr(<<"E","x","p","e","c","t","i","n","g"," ","'",",","'"," ","d","e","l","i","m","i","t","e","r">>, j)

\* JSONArray after '[' or ',': i is at the next value
ArrayItems(s, i, d, limit, xs) ==
    JThen(ScanOnce(s, i, d, limit), LAMBDA val :
        AfterItem(s, SkipWs(s, val.end), d, limit, Append(xs, val.val)))

\* the value r when only white space follows it, j being after that
NothingAfter(s, r, j) == IF j # Len(s) + 1 THEN JErr(<<"E","x","t","r","a"," ","d","a","t","a">>, j) ELSE r

\* JSONDecoder.decode: one value, white space around it, nothing after it
JsonDecode(s, limit) ==
    JThen(ScanOnce(s, SkipWs(s, 1), 0, limit), LAMBDA r : NothingAfter(s, r, SkipWs(s, r.end)))

(***************************************************************************)
(* analyze_notebook                                                        *)
(***************************************************************************)
\* the recursion limit of the interpreter, scaled to the model's documents
JsonRecursionLimit == 5

\* d.get(key, default) on a decoded dict
DictGet(d, key, default) ==
    IF \E k \in 1..Len(d.v) : d.v[k].key = key
    THEN d.v[CHOOSE k \in 1..Len(d.v) : d.v[k].key = key].val
    ELSE default

\* what `for c in v` yields: the elements of a list, the keys of a dict, the
\* characters of a str
Iterable(v) == v.k \in {"list", "dict", "str"}

Iterate(v) ==
    CASE v.k = "list" -> v.v
      [] v.k = "dict" -> [k \in 1..Len(v.v) |-> JStr(v.v[k].key)]
      [] v.k = "str" -> [k \in 1..Len(v.v) |-> JStr(<<v.v[k]>>)]

\* a test that takes every cell with a type for a cell of the kind
IsCellWithType(c, kind) == DictGet(c, <<"c","e","l","l","_","t","y","p","e">>, JNull).k = "str"

\* c.get('cell_type') == kind, for a cell that is a dict
IsCellOf(c, kind) == DictGet(c, <<"c","e","l","l","_","t","y","p","e">>, JNull) = JStr(kind)

RECURSIVE CellsOf(_, _)
CellsOf(cells, kind) ==
    IF cells = <<>> THEN <<>>
    ELSE (IF IsCellOf(Head(cells), kind) THEN <<Head(cells)>> ELSE <<>>)
         \o CellsOf(Tail(cells), kind)

\* ''.join(v) succeeds when v yields only strings
Joinable(v) == Iterable(v) /\ \A k \in 1..Len(Iterate(v)) : Iterate(v)[k].k = "str"

\* ''.join(v)
JoinStrings(v) == str_join([k \in 1..Len(v) |-> v[k].v])

\* ''.join(cell.get('source', []))
JoinSource(cell) == JoinStrings(Iterate(DictGet(cell, <<"s","o","u","r","c","e">>, JList(<<>>))))

\* for line in source.split('\n'): if line.strip().startswith('import ') or
\* line.strip().startswith('from '): imports.append(line.strip())
IsImportLine(l) == StartsWith(l, <<"i","m","p","o","r","t"," ">>) \/ StartsWith(l, <<"f","r","o","m"," ">>)

ImportLines(lines) == SelectSeq(MapStrip(lines), IsImportLine)

\* r'^def\s+(\w+)\s*\(', re.MULTILINE
def_pattern ==
    Regex(<<BOL, Lit(<<"d","e","f">>), Plus(SpaceCls), Grp(1, <<Plus(WordCls)>>), Star(SpaceCls),
            Lit(<<"(">>)>>, 1, FALSE, TRUE)

\* r'^#+\s+(.+)$', re.MULTILINE
heading_pattern ==
    Regex(<<BOL, Plus(Cls({"#"})), Plus(SpaceCls), Grp(1, <<Plus(Dot)>>), EOL>>,
          1, FALSE, TRUE)

vis_keywords == <<<<"p","l","t",".">>, <<"s","n","s",".">>, <<"f","i","g",".">>, <<"a","x",".">>, <<"p","l","o","t","l","y">>, <<"b","o","k","e","h">>, <<"a","l","t","a","i","r">>>>

\* keyword.replace('.', '')
RECURSIVE RemoveChar(_, _)
RemoveChar(s, c) ==
    IF s = <<>> THEN <<>>
    ELSE (IF Head(s) = c THEN <<>> ELSE <<Head(s)>>) \o RemoveChar(Tail(s), c)

\* r'pd\.read_csv\(["\']([^"\']+)', r'pd\.read_excel\(["\']([^"\']+)',
\* r'pd\.read_sql', r'requests\.get\(["\']([^"\']+)'
data_patterns ==
    << [pattern |-> Regex(<<Lit(<<"p","d",".","r","e","a","d","_","c","s","v","(">>), QuoteCls, Grp(1, <<Plus(NotQuoteCls)>>)>>,
                          1, FALSE, FALSE), dtype |-> <<"c","s","v">>],
       [pattern |-> Regex(<<Lit(<<"p","d",".","r","e","a","d","_","e","x","c","e","l","(">>), QuoteCls, Grp(1, <<Plus(NotQuoteCls)>>)>>,
                          1, FALSE, FALSE), dtype |-> <<"e","x","c","e","l">>],
       [pattern |-> Regex(<<Lit(<<"p","d",".","r","e","a","d","_","s","q","l">>)>>, 0, FALSE, FALSE), dtype |-> <<"s","q","l">>],
       [pattern |-> Regex(<<Lit(<<"r","e","q","u","e","s","t","s",".","g","e","t","(">>), QuoteCls, Grp(1, <<Plus(NotQuoteCls)>>)>>,
                          1, FALSE, FALSE), dtype |-> <<"a","p","i">>] >>

RECURSIVE KeywordsFound(_, _)
KeywordsFound(kws, source) ==
    IF kws = <<>> THEN <<>>
    ELSE (IF Contains(source, Head(kws)) THEN <<RemoveChar(Head(kws), ".")>> ELSE <<>>)
         \o KeywordsFound(Tail(kws), source)

RECURSIVE PatternsFound(_, _)
PatternsFound(pats, source) ==
    IF pats = <<>> THEN <<>>
    ELSE (IF re_search(Head(pats).pattern, source) THEN <<Head(pats).dtype>> ELSE <<>>)
         \o PatternsFound(Tail(pats), source)

\* the loops over the cells' joined sources, each extending one list
RECURSIVE nb_imports(_)
nb_imports(sources) ==
    IF sources = <<>> THEN <<>>
    ELSE ImportLines(str_split(Head(sources), "\n")) \o nb_imports(Tail(sources))

RECURSIVE nb_functions(_)
nb_functions(sources) ==
    IF sources = <<>> THEN <<>>
    ELSE re_findall(def_pattern, Head(sources)) \o nb_functions(Tail(sources))

RECURSIVE nb_visualizations(_)
nb_visualizations(sources) ==
    IF sources = <<>> THEN <<>>
    ELSE KeywordsFound(vis_keywords, Head(sources)) \o nb_visualizations(Tail(sources))

RECURSIVE nb_data_sources(_)
nb_data_sources(sources) ==
    IF sources = <<>> THEN <<>>
    ELSE PatternsFound(data_patterns, Head(sources)) \o nb_data_sources(Tail(sources))

\* the headings of the first markdown cell alone
nb_headings_of_first(sources) ==
    IF sources = <<>> THEN <<>> ELSE re_findall(heading_pattern, Head(sources))

RECURSIVE nb_headings(_)
nb_headings(sources) ==
    IF sources = <<>> THEN <<>>
    ELSE re_findall(heading_pattern, Head(sources)) \o nb_headings(Tail(sources))

\* title = None; for h in headings: title = h; break
nb_title(headings) == IF headings = <<>> THEN None ELSE Some(Head(headings))

Sources(cells) == [k \in 1..Len(cells) |-> JoinSource(cells[k])]

\* NotebookAnalysis(...).to_dict() from the joined sources of the code
\* cells, the headings of the markdown cells and the number of cells
NotebookAnalysis(path, seed, total, code, markdown_count, headings) ==
    [file_path |-> path,
     file_type |-> "ipynb",
     title |-> nb_title(headings),
     total_cells |-> total,
     code_cells |-> Len(code),
     markdown_cells |-> markdown_count,
     imports |-> Take(ListOfSet(nb_imports(code), seed), 20),
     functions |-> ListOfSet(nb_functions(code), seed),
     visualizations |-> ListOfSet(nb_visualizations(code), seed),
     data_sources |-> ListOfSet(nb_data_sources(code), seed),
     headings |-> Take(headings, 10)]

HasUnjoinableSource(cells) ==
    \E k \in 1..Len(cells) : ~Joinable(DictGet(cells[k], <<"s","o","u","r","c","e">>, JList(<<>>)))

\* the loops over the code cells and the markdown cells
nb_cells(path, seed, total, code_cells, markdown_cells) ==
    IF HasUnjoinableSource(code_cells) \/ HasUnjoinableSource(markdown_cells)
    THEN Raised("TypeError")
    ELSE Returned(NotebookAnalysis(path, seed, total, Sources(code_cells),
                                   Len(markdown_cells), nb_headings(Sources(markdown_cells))))

\* the two comprehensions over cells = nb.get('cells', [])
nb_select(path, seed, cells) ==
    IF ~Iterable(cells) THEN Raised("TypeError")
    ELSE IF \E k \in 1..Len(Iterate(cells)) : Iterate(cells)[k].k # "dict"
         THEN Raised("AttributeError")
    ELSE nb_cells(path, seed, Len(Iterate(cells)), CellsOf(Iterate(cells), <<"c","o","d","e">>),
                  CellsOf(Iterate(cells), <<"m","a","r","k","d","o","w","n">>))

\* the statements after json.loads, on the decoded document nb
nb_analysis(nb, path, seed) ==
    IF nb.k # "dict" THEN Raised("AttributeError")
    ELSE nb_select(path, seed, DictGet(nb, <<"c","e","l","l","s">>, JList(<<>>)))

\* try: nb = json.loads(content) / except json.JSONDecodeError as e: return {...}
analyze_notebook(text, path, seed) ==
    With(JsonDecode(text, JsonRecursionLimit), LAMBDA loaded :
        CASE loaded.st = "JSONDecodeError" ->
               Returned([file_path |-> path, file_type |-> "ipynb",
                         error |-> <<"I","n","v","a","l","i","d"," ","J","S","O","N",":"," ">> \o JsonErrorText(text, loaded)])
          [] loaded.st = "RecursionError" -> Raised("RecursionError")
          [] OTHER -> nb_analysis(loaded.val, path, seed))

\* the depth of the tree at which the conversion of ast.parse gives up: the
\* interpreter's recursion limit, scaled down to the size of the texts here
AstRecursionLimit == 10

(***************************************************************************)
(* ast.parse, first half: the tokenizer, on characters.  It covers the     *)
(* part of the language the analyzer reads: names, integers and decimal    *)
(* numbers, plain and triple-quoted string literals, operators, comments,  *)
(* line continuation, bracket nesting, and indentation given by spaces.    *)
(* Every failure of the tokenizer is a SyntaxError (IndentationError       *)
(* included).                                                              *)
(***************************************************************************)
\* a token: its type, its text and the line it starts on
PyTok(t, v, line) == [t |-> t, v |-> v, line |-> line]
TokOk(ts) == [ok |-> TRUE, toks |-> ts, msg |-> <<>>]
TokErr(m) == [ok |-> FALSE, toks |-> <<>>, msg |-> m]

\* the tokenizer's limits on bracket nesting and on indentation levels
MaxLevel == 200
MaxIndent == 100

NameStartSet == LowerSet \cup UpperSet \cup {"_"}
Openers == {"(", "[", "{"}
Closers == {")", "]", "}"}
CloserOf(c) == CASE c = "(" -> ")" [] c = "[" -> "]" [] c = "{" -> "}"
TwoCharOps == {<<"-",">">>, <<"=","=">>, <<"!","=">>, <<"<","=">>, <<">","=">>, <<"*","*">>, <<"/","/">>, <<"+","=">>, <<"-","=">>, <<"*","=">>, <<"/","=">>,
               <<":","=">>, <<"<","<">>, <<">",">">>}
OneCharOps == {":", ",", ".", "=", "@", "*", "+", "-", "/", ";", "<", ">", "%", "|", "&",
               "~", "^"}

\* the column reached by the blanks starting at i, and where they end
RECURSIVE IndentWidth(_, _, _)
IndentWidth(s, i, col) ==
    IF CharAt(s, i) = " " THEN IndentWidth(s, i + 1, col + 1)
    ELSE IF CharAt(s, i) = "\t" THEN IndentWidth(s, i + 1, (col \div 8 + 1) * 8)
    ELSE IF CharAt(s, i) = "\f" THEN IndentWidth(s, i + 1, 0)
    ELSE [col |-> col, at |-> i]

\* the position of the next newline at or after i, or Len(s) + 1
LineEnd(s, i) == Least({p \in i..(Len(s) + 1) : p > Len(s) \/ s[p] = "\n"} \cup {Len(s) + 1})

\* one character, or one escaped pair, of a one-line string: the position
\* after the closing quote, or 0 when the line or the text ends first
StringStep(s, j, q) ==
    IF j > Len(s) \/ s[j] = "\n" THEN [end |-> 0]
    ELSE IF s[j] = "\\" THEN (IF j + 1 > Len(s) THEN [end |-> 0] ELSE [j |-> j + 2])
    ELSE IF s[j] = q THEN [end |-> j + 1]
    ELSE [j |-> j + 1]

\* the position after the closing quote of a one-line string whose body
\* starts at j, or 0 when the line or the text ends first
StringEnd(s, j, q) ==
    Loop(LAMBDA st : StringStep(s, st.j, q), LAMBDA st : "end" \in DOMAIN st,
         [j |-> j], Len(s) + 1).end

TripleStep(s, j, q) ==
    IF j > Len(s) THEN [end |-> 0]
    ELSE IF s[j] = "\\" THEN [j |-> j + 2]
    ELSE IF LitAt(s, j, <<q, q, q>>, FALSE) THEN [end |-> j + 3]
    ELSE [j |-> j + 1]

\* the same for a triple-quoted string
TripleEnd(s, j, q) ==
    Loop(LAMBDA st : TripleStep(s, st.j, q), LAMBDA st : "end" \in DOMAIN st,
         [j |-> j], Len(s) + 1).end

Repeat(x, n) == [k \in 1..n |-> x]

\* at the end of the text: a NEWLINE for an unfinished line, a DEDENT for
\* every open block, ENDMARKER
FinishTokens(indents, bol, acc) ==
    TokOk(acc \o (IF bol THEN <<>> ELSE <<PyTok("NEWLINE", <<>>, 0)>>)
              \o Repeat(PyTok("DEDENT", <<>>, 0), Len(indents) - 1)
              \o <<PyTok("END", <<>>, 0)>>)

RECURSIVE KeepUpTo(_, _)
KeepUpTo(indents, col) ==
    IF indents[Len(indents)] > col THEN KeepUpTo(SubSeq(indents, 1, Len(indents) - 1), col)
    ELSE indents

\* the 1-based line of position i
LineAt(s, i) == CountChar(SubSeq(s, 1, i - 1), "\n") + 1

\* the tokenizer between two steps
TokState(i, opens, indents, bol, acc) ==
    [i |-> i, opens |-> opens, indents |-> indents, bol |-> bol, acc |-> acc]

\* one step of the tokenizer at position i: the state after the next token,
\* blank, comment or line break, or the outcome.  opens: the open brackets;
\* indents: the indentation stack; bol: at the beginning of a logical line
TokStep(s, i, opens, indents, bol, acc) ==
    LET c == CharAt(s, i)
    IN
    IF bol /\ opens = <<>> /\ c # "" THEN
        LET w == IndentWidth(s, i, 0)
            d == CharAt(s, w.at)
            kept == KeepUpTo(indents, w.col)
        IN  IF d = "" THEN FinishTokens(indents, TRUE, acc)
            ELSE IF d = "\n" THEN TokState(w.at + 1, opens, indents, TRUE, acc)
            ELSE IF d = "#" THEN TokState(LineEnd(s, w.at) + 1, opens, indents, TRUE, acc)
            ELSE IF w.col > indents[Len(indents)] /\ Len(indents) >= MaxIndent
                 THEN TokErr(<<"t","o","o"," ","m","a","n","y"," ","l","e","v","e","l","s"," ","o","f"," ","i","n","d","e","n","t","a","t","i","o","n">>)
            ELSE IF w.col > indents[Len(indents)]
                 THEN TokState(w.at, opens, Append(indents, w.col), FALSE,
                               Append(acc, PyTok("INDENT", <<>>, 0)))
            ELSE IF kept[Len(kept)] # w.col
                 THEN TokErr(<<"u","n","i","n","d","e","n","t"," ","d","o","e","s"," ","n","o","t"," ","m","a","t","c","h"," ","a","n","y"," ","o","u","t","e","r"," ","i","n","d","e","n","t","a","t","i","o","n"," ","l","e","v","e","l">>)
            ELSE TokState(w.at, opens, kept, FALSE,
                          acc \o Repeat(PyTok("DEDENT", <<>>, 0), Len(indents) - Len(kept)))
    ELSE
      CASE c = "" ->
             IF opens # <<>> THEN TokErr(<<"'", opens[Len(opens)], "'">> \o <<" ","w","a","s"," ","n","e","v","e","r"," ","c","l","o","s","e","d">>)
             ELSE FinishTokens(indents, bol, acc)
        [] c \in {" ", "\t", "\f"} -> TokState(i + 1, opens, indents, bol, acc)
        [] c = "#" -> TokState(LineEnd(s, i), opens, indents, bol, acc)
        [] c = "\n" ->
             IF opens # <<>> THEN TokState(i + 1, opens, indents, bol, acc)
             ELSE TokState(i + 1, opens, indents, TRUE, Append(acc, PyTok("NEWLINE", <<>>, 0)))
        [] c = "\\" ->
             IF CharAt(s, i + 1) = "\n" /\ i + 1 < Len(s)
             THEN TokState(i + 2, opens, indents, bol, acc)
             ELSE IF CharAt(s, i + 1) = "\n" \/ i = Len(s)
                  THEN TokErr(<<"u","n","e","x","p","e","c","t","e","d"," ","E","O","F"," ","w","h","i","l","e"," ","p","a","r","s","i","n","g">>)
             ELSE TokErr(<<"u","n","e","x","p","e","c","t","e","d"," ","c","h","a","r","a","c","t","e","r"," ","a","f","t","e","r"," ","l","i","n","e"," ","c","o","n","t","i","n","u","a","t","i","o","n"," ","c","h","a","r","a","c","t","e","r">>)
        [] c \in NameStartSet ->
             LET n == RunLen(s, i, WordCls, FALSE)
             IN  TokState(i + n, opens, indents, FALSE,
                          Append(acc, PyTok("NAME", Slice(s, i, i + n), LineAt(s, i))))
        [] c \in DigitSet ->
             LET n == RunLen(s, i, DigitCls, FALSE)
                 m == IF CharAt(s, i + n) = "."
                      THEN n + 1 + RunLen(s, i + n + 1, DigitCls, FALSE) ELSE n
             IN  IF c = "0" /\ m = n /\ n > 1 /\ Slice(s, i, i + n) # Repeat("0", n)
                 THEN TokErr(<<"l","e","a","d","i","n","g"," ","z","e","r","o","s"," ","i","n"," ","d","e","c","i","m","a","l"," ","i","n","t","e","g","e","r"," ","l","i","t","e","r","a","l","s"," ","a","r","e"," ","n","o","t"," ","p","e","r","m","i","t","t","e","d">>)
                 ELSE IF CharAt(s, i + m) \in NameStartSet
                 THEN TokErr(<<"i","n","v","a","l","i","d"," ","d","e","c","i","m","a","l"," ","l","i","t","e","r","a","l">>)
                 ELSE TokState(i + m, opens, indents, FALSE,
                               Append(acc, PyTok("NUMBER", Slice(s, i, i + m), LineAt(s, i))))
        [] c \in {"\"", "'"} ->
             LET triple == LitAt(s, i, <<c, c, c>>, FALSE)
                 e == IF triple THEN TripleEnd(s, i + 3, c) ELSE StringEnd(s, i + 1, c)
             IN  IF e = 0
                 THEN TokErr(IF triple THEN <<"u","n","t","e","r","m","i","n","a","t","e","d"," ","t","r","i","p","l","e","-","q","u","o","t","e","d"," ","s","t","r","i","n","g"," ","l","i","t","e","r","a","l">>
                                       ELSE <<"u","n","t","e","r","m","i","n","a","t","e","d"," ","s","t","r","i","n","g"," ","l","i","t","e","r","a","l">>)
                 ELSE TokState(e, opens, indents, FALSE,
                               Append(acc, PyTok("STRING", Slice(s, i, e), LineAt(s, i))))
        [] c \in Openers ->
             IF Len(opens) >= MaxLevel THEN TokErr(<<"t","o","o"," ","m","a","n","y"," ","n","e","s","t","e","d"," ","p","a","r","e","n","t","h","e","s","e","s">>)
             ELSE
             TokState(i + 1, Append(opens, c), indents, FALSE,
                      Append(acc, PyTok("OP", <<c>>, LineAt(s, i))))
        [] c \in Closers ->
             IF opens = <<>> THEN TokErr(<<"u","n","m","a","t","c","h","e","d"," ","'">> \o <<c, "'">>)
             ELSE IF CloserOf(opens[Len(opens)]) # c
                  THEN TokErr(<<"c","l","o","s","i","n","g"," ","p","a","r","e","n","t","h","e","s","i","s"," ","d","o","e","s"," ","n","o","t"," ","m","a","t","c","h"," ","o","p","e","n","i","n","g"," ","p","a","r","e","n","t","h","e","s","i","s">>)
             ELSE TokState(i + 1, SubSeq(opens, 1, Len(opens) - 1), indents, FALSE,
                           Append(acc, PyTok("OP", <<c>>, LineAt(s, i))))
        [] i < Len(s) /\ SubSeq(s, i, i + 1) \in TwoCharOps ->
             TokState(i + 2, opens, indents, FALSE,
                      Append(acc, PyTok("OP", SubSeq(s, i, i + 1), LineAt(s, i))))
        [] c \in OneCharOps ->
             TokState(i + 1, opens, indents, FALSE, Append(acc, PyTok("OP", <<c>>, LineAt(s, i))))
        [] OTHER -> TokErr(<<"i","n","v","a","l","i","d"," ","s","y","n","t","a","x">>)

\* n steps of the tokenizer, or fewer when it has finished.  The loop is run
\* as two halves, so that its evaluation nests to the logarithm of n.
RECURSIVE Tokenize(_, _, _)
Tokenize(s, st, n) ==
    IF "ok" \in DOMAIN st \/ n = 0 THEN st
    ELSE IF n = 1 THEN TokStep(s, st.i, st.opens, st.indents, st.bol, st.acc)
    ELSE Tokenize(s, Tokenize(s, st, n \div 2), n - n \div 2)

\* of two steps in a row at least one reads a character, until the last
py_tokenize(s) == Tokenize(s, TokState(1, <<>>, <<0>>, TRUE, <<>>), 2 * Len(s) + 2)
(***************************************************************************)
(* ast.parse, second half: the parser, on tokens.  It builds the nodes of  *)
(* the ast module that the analyzer visits.  Every failure of the parser   *)
(* is a SyntaxError.  Expressions: names, constants, attribute access,     *)
(* calls, subscripts, tuples, lists, unary minus, + and -, ==.             *)
(* The message of a SyntaxError is the parser's main wording ("invalid     *)
(* syntax", "unexpected indent", ...); the hints CPython appends to some   *)
(* messages and the " (<unknown>, line N)" suffix of str(e) are left out,  *)
(* so the model's error text is non-empty exactly when the code's is.      *)
(***************************************************************************)
POk(node, pos) == [ok |-> TRUE, node |-> node, pos |-> pos, msg |-> <<>>]
PErr(m) == [ok |-> FALSE, node |-> <<>>, pos |-> 0, msg |-> m]
InvalidSyntax == PErr(<<"i","n","v","a","l","i","d"," ","s","y","n","t","a","x">>)

PyKeywords ==
    {<<"F","a","l","s","e">>, <<"N","o","n","e">>, <<"T","r","u","e">>, <<"a","n","d">>, <<"a","s">>, <<"a","s","s","e","r","t">>, <<"a","s","y","n","c">>, <<"a","w","a","i","t">>, <<"b","r","e","a","k">>,
     <<"c","l","a","s","s">>, <<"c","o","n","t","i","n","u","e">>, <<"d","e","f">>, <<"d","e","l">>, <<"e","l","i","f">>, <<"e","l","s","e">>, <<"e","x","c","e","p","t">>, <<"f","i","n","a","l","l","y">>,
     <<"f","o","r">>, <<"f","r","o","m">>, <<"g","l","o","b","a","l">>, <<"i","f">>, <<"i","m","p","o","r","t">>, <<"i","n">>, <<"i","s">>, <<"l","a","m","b","d","a">>, <<"n","o","n","l","o","c","a","l">>,
     <<"n","o","t">>, <<"o","r">>, <<"p","a","s","s">>, <<"r","a","i","s","e">>, <<"r","e","t","u","r","n">>, <<"t","r","y">>, <<"w","h","i","l","e">>, <<"w","i","t","h">>, <<"y","i","e","l","d">>}

OpAt(ts, p, o) == ts[p].t = "OP" /\ ts[p].v = o
KwAt(ts, p, k) == ts[p].t = "NAME" /\ ts[p].v = k
IdentAt(ts, p) == ts[p].t = "NAME" /\ ts[p].v \notin PyKeywords

Name(id) == [k |-> "Name", id |-> id]
Constant(kind, value) == [k |-> "Constant", kind |-> kind, value |-> value]
Attribute(value, attr) == [k |-> "Attribute", value |-> value, attr |-> attr]
Call(func, args, keywords) == [k |-> "Call", func |-> func, args |-> args, keywords |-> keywords]
Subscript(value, slice) == [k |-> "Subscript", value |-> value, slice |-> slice]
Tuple(elts) == [k |-> "Tuple", elts |-> elts]
List(elts) == [k |-> "List", elts |-> elts]
UnaryOp(op, operand) == [k |-> "UnaryOp", op |-> op, operand |-> operand]
BinOp(left, op, right) == [k |-> "BinOp", left |-> left, op |-> op, right |-> right]
Compare(left, ops, comparators) ==
    [k |-> "Compare", left |-> left, ops |-> ops, comparators |-> comparators]
Starred(value) == [k |-> "Starred", value |-> value]
Keyword(arg, value) == [k |-> "keyword", arg |-> arg, value |-> value]

\* the value of the escapes of a string literal's body
Unquote(b) ==
    Loop(LAMBDA st :
             IF b[st.i] = "\\" /\ st.i < Len(b)
             THEN [i |-> st.i + 2,
                   out |-> st.out \o
                       (CASE b[st.i + 1] = "n" -> <<"\n">> [] b[st.i + 1] = "t" -> <<"\t">>
                          [] b[st.i + 1] = "\n" -> <<>>
                          [] b[st.i + 1] \in {"\\", "'", "\""} -> <<b[st.i + 1]>>
                          [] OTHER -> <<"\\", b[st.i + 1]>>)]
             ELSE [i |-> st.i + 1, out |-> Append(st.out, b[st.i])],
         LAMBDA st : st.i > Len(b), [i |-> 1, out |-> <<>>], Len(b)).out

\* the str a STRING token denotes
StringValue(v) ==
    IF Len(v) >= 6 /\ v[1] = v[2] /\ v[2] = v[3] THEN Unquote(SubSeq(v, 4, Len(v) - 3))
    ELSE Unquote(SubSeq(v, 2, Len(v) - 1))

\* adjacent string literals are one constant
RECURSIVE StringRun(_, _, _)
StringRun(ts, p, acc) ==
    IF ts[p].t = "STRING" THEN StringRun(ts, p + 1, acc \o StringValue(ts[p].v))
    ELSE POk(Constant("str", acc), p)

\* after the result r of a rule: the failure r, or Rest of the success r
Then(r, Rest(_)) == IF r.ok THEN Rest(r) ELSE r

\* The rules of the grammar, which call one another
RECURSIVE PExpr(_, _)
RECURSIVE PSum(_, _)
RECURSIVE PSumRest(_, _, _)
RECURSIVE PUnary(_, _)
RECURSIVE PTrailers(_, _, _)
RECURSIVE PAtom(_, _)
RECURSIVE PExprs(_, _, _)
RECURSIVE PCallArgs(_, _, _, _)
RECURSIVE PCompareRest(_, _, _, _)
RECURSIVE PStmts(_, _, _)
RECURSIVE PStmt(_, _)
RECURSIVE PBlock(_, _)
RECURSIVE PFuncDef(_, _, _, _, _)
RECURSIVE PClassDef(_, _, _)
RECURSIVE PIf(_, _, _)

StartsExpr(ts, p) ==
    \/ ts[p].t \in {"NUMBER", "STRING"}
    \/ IdentAt(ts, p)
    \/ ts[p].t = "NAME" /\ ts[p].v \in {<<"N","o","n","e">>, <<"T","r","u","e">>, <<"F","a","l","s","e">>}
    \/ ts[p].t = "OP" /\ ts[p].v \in {<<"(">>, <<"[">>, <<"-">>}


\* expr (',' expr)* [',']: the expressions, the position after them and
\* whether a comma was read (node is <<elts, comma>>)
PExprs(ts, p, acc) ==
    IF ~StartsExpr(ts, p) THEN POk(<<acc, acc # <<>> >>, p)
    ELSE Then(PExpr(ts, p), LAMBDA e :
             IF OpAt(ts, e.pos, <<",">>) THEN PExprs(ts, e.pos + 1, Append(acc, e.node))
             ELSE POk(<<Append(acc, e.node), acc # <<>> >>, e.pos))

\* star_expressions: one expression, or a tuple when a comma follows
PTupleExpr(ts, p) ==
    IF ~StartsExpr(ts, p) THEN InvalidSyntax
    ELSE Then(PExprs(ts, p, <<>>), LAMBDA es :
             IF es.node[2] THEN POk(Tuple(es.node[1]), es.pos)
             ELSE POk(es.node[1][1], es.pos))

\* comparison: sum ('==' sum)*
PExpr(ts, p) ==
    Then(PSum(ts, p), LAMBDA l :
        IF OpAt(ts, l.pos, <<"=","=">>) THEN PCompareRest(ts, l.pos, l.node, <<>>) ELSE l)

PCompareRest(ts, p, left, rights) ==
    IF OpAt(ts, p, <<"=","=">>) THEN
        Then(PSum(ts, p + 1), LAMBDA r :
            PCompareRest(ts, r.pos, left, Append(rights, r.node)))
    ELSE POk(Compare(left, Repeat(<<"=","=">>, Len(rights)), rights), p)

\* sum: unary (('+' | '-') unary)*, left-associative
PSum(ts, p) == Then(PUnary(ts, p), LAMBDA l : PSumRest(ts, l.pos, l.node))

PSumRest(ts, p, left) ==
    IF OpAt(ts, p, <<"+">>) \/ OpAt(ts, p, <<"-">>) THEN
        Then(PUnary(ts, p + 1), LAMBDA r :
            PSumRest(ts, r.pos, BinOp(left, ts[p].v, r.node)))
    ELSE POk(left, p)

\* factor: '-' factor | primary
PUnary(ts, p) ==
    IF OpAt(ts, p, <<"-">>)
    THEN Then(PUnary(ts, p + 1), LAMBDA r : POk(UnaryOp(<<"-">>, r.node), r.pos))
    ELSE Then(PAtom(ts, p), LAMBDA a : PTrailers(ts, a.pos, a.node))

\* primary: atom ('.' NAME | '(' args ')' | '[' slices ']')*
PTrailers(ts, p, left) ==
    IF OpAt(ts, p, <<".">>) THEN
        IF IdentAt(ts, p + 1) THEN PTrailers(ts, p + 2, Attribute(left, ts[p + 1].v))
        ELSE InvalidSyntax
    ELSE IF OpAt(ts, p, <<"(">>) THEN
        Then(PCallArgs(ts, p + 1, <<>>, <<>>), LAMBDA cargs :
            PTrailers(ts, cargs.pos, Call(left, cargs.node[1], cargs.node[2])))
    ELSE IF OpAt(ts, p, <<"[">>) THEN
        Then(PTupleExpr(ts, p + 1), LAMBDA ix :
            IF ~OpAt(ts, ix.pos, <<"]">>) THEN InvalidSyntax
            ELSE PTrailers(ts, ix.pos + 1, Subscript(left, ix.node)))
    ELSE POk(left, p)

\* how the argument at p is written: *iterable, **mapping, name=value or
\* a plain value
ArgForm(ts, p) ==
    CASE OpAt(ts, p, <<"*">>) -> "star"
      [] OpAt(ts, p, <<"*","*">>) -> "dstar"
      [] IdentAt(ts, p) /\ OpAt(ts, p + 1, <<"=">>) -> "named"
      [] OTHER -> "plain"

\* after an argument: ',' and more arguments, or ')'
AfterArg(ts, p, args, kws) ==
    IF OpAt(ts, p, <<",">>) THEN PCallArgs(ts, p + 1, args, kws)
    ELSE IF OpAt(ts, p, <<")">>) THEN POk(<<args, kws>>, p + 1)
    ELSE InvalidSyntax

\* the arguments of a call up to ')'
PCallArgs(ts, p, args, kws) ==
    IF OpAt(ts, p, <<")">>) THEN POk(<<args, kws>>, p + 1)
    ELSE
      With(ArgForm(ts, p), LAMBDA form :
      Then(PExpr(ts, CASE form \in {"star", "dstar"} -> p + 1 [] form = "named" -> p + 2
                       [] OTHER -> p), LAMBDA e :
          IF form = "plain" /\ kws # <<>>
          THEN PErr(IF \E k \in 1..Len(kws) : kws[k].arg = None
                    THEN <<"p","o","s","i","t","i","o","n","a","l"," ","a","r","g","u","m","e","n","t"," ","f","o","l","l","o","w","s"," ","k","e","y","w","o","r","d"," ","a","r","g","u","m","e","n","t"," ","u","n","p","a","c","k","i","n","g">>
                    ELSE <<"p","o","s","i","t","i","o","n","a","l"," ","a","r","g","u","m","e","n","t"," ","f","o","l","l","o","w","s"," ","k","e","y","w","o","r","d"," ","a","r","g","u","m","e","n","t">>)
          ELSE IF form = "star" /\ \E k \in 1..Len(kws) : kws[k].arg = None
          THEN PErr(<<"i","t","e","r","a","b","l","e"," ","a","r","g","u","m","e","n","t"," ","u","n","p","a","c","k","i","n","g"," ","f","o","l","l","o","w","s"," ","k","e","y","w","o","r","d"," ","a","r","g","u","m","e","n","t"," ","u","n","p","a","c","k","i","n","g">>)
          ELSE AfterArg(ts, e.pos,
                        CASE form = "star" -> Append(args, Starred(e.node))
                          [] form = "plain" -> Append(args, e.node)
                          [] OTHER -> args,
                        CASE form = "dstar" -> Append(kws, Keyword(None, e.node))
                          [] form = "named" -> Append(kws, Keyword(Some(ts[p].v), e.node))
                          [] OTHER -> kws)))

PAtom(ts, p) ==
    CASE IdentAt(ts, p) -> POk(Name(ts[p].v), p + 1)
      [] ts[p].t = "NAME" /\ ts[p].v \in {<<"N","o","n","e">>, <<"T","r","u","e">>, <<"F","a","l","s","e">>} ->
           POk(Constant("name", ts[p].v), p + 1)
      [] ts[p].t = "NUMBER" -> POk(Constant("num", ts[p].v), p + 1)
      [] ts[p].t = "STRING" -> StringRun(ts, p, <<>>)
      [] OpAt(ts, p, <<"(">>) ->
           Then(PExprs(ts, p + 1, <<>>), LAMBDA es :
               IF ~OpAt(ts, es.pos, <<")">>) THEN InvalidSyntax
               ELSE IF es.node[2] \/ es.node[1] = <<>> THEN POk(Tuple(es.node[1]), es.pos + 1)
               ELSE POk(es.node[1][1], es.pos + 1))
      [] OpAt(ts, p, <<"[">>) ->
           Then(PExprs(ts, p + 1, <<>>), LAMBDA es :
               IF ~OpAt(ts, es.pos, <<"]">>) THEN InvalidSyntax
               ELSE POk(List(es.node[1]), es.pos + 1))
      [] OTHER -> InvalidSyntax

(***************************************************************************)
(* Statements: pass, break, continue, return, import, from-import,         *)
(* assignment (plain, annotated, augmented), expression statements, def    *)
(* and async def, class, decorators, if/elif/else and while.               *)
(***************************************************************************)
Alias(name, asname) == [k |-> "alias", name |-> name, asname |-> asname]
Import(names, lineno) == [k |-> "Import", names |-> names, lineno |-> lineno]
ImportFrom(module, names, level, lineno) ==
    [k |-> "ImportFrom", module |-> module, names |-> names, level |-> level, lineno |-> lineno]
Arg(arg, annotation) == [k |-> "arg", arg |-> arg, annotation |-> annotation]
Arguments(posonlyargs, args, vararg, kwonlyargs, kwarg, defaults) ==
    [k |-> "arguments", posonlyargs |-> posonlyargs, args |-> args, vararg |-> vararg,
     kwonlyargs |-> kwonlyargs, kwarg |-> kwarg, defaults |-> defaults]
\* kind: "FunctionDef" or "AsyncFunctionDef"
FunctionDef(kind, name, args, body, decorator_list, returns, lineno) ==
    [k |-> kind, name |-> name, args |-> args, body |-> body,
     decorator_list |-> decorator_list, returns |-> returns, lineno |-> lineno]
ClassDef(name, bases, keywords, body, decorator_list, lineno) ==
    [k |-> "ClassDef", name |-> name, bases |-> bases, keywords |-> keywords, body |-> body,
     decorator_list |-> decorator_list, lineno |-> lineno]
Assign(targets, value, lineno) ==
    [k |-> "Assign", targets |-> targets, value |-> value, lineno |-> lineno]
AnnAssign(target, annotation, value, lineno) ==
    [k |-> "AnnAssign", target |-> target, annotation |-> annotation, value |-> value,
     lineno |-> lineno]
AugAssign(target, op, value, lineno) ==
    [k |-> "AugAssign", target |-> target, op |-> op, value |-> value, lineno |-> lineno]
Expr(value, lineno) == [k |-> "Expr", value |-> value, lineno |-> lineno]
Return(value, lineno) == [k |-> "Return", value |-> value, lineno |-> lineno]
Simple(kind, lineno) == [k |-> kind, lineno |-> lineno]
If(kind, test, body, orelse, lineno) ==
    [k |-> kind, test |-> test, body |-> body, orelse |-> orelse, lineno |-> lineno]
Module(body) == [k |-> "Module", body |-> body]

\* NAME ('.' NAME)*, as the dotted text
RECURSIVE PDotted(_, _, _)
PDotted(ts, p, acc) ==
    IF ~IdentAt(ts, p) THEN InvalidSyntax
    ELSE IF OpAt(ts, p + 1, <<".">>) THEN PDotted(ts, p + 2, acc \o ts[p].v \o <<".">>)
    ELSE POk(acc \o ts[p].v, p + 1)

\* ['as' NAME] after a name: the alias and the position after it
PAsName(ts, p, name) ==
    IF KwAt(ts, p, <<"a","s">>) THEN
        IF IdentAt(ts, p + 1) THEN POk(Alias(name, Some(ts[p + 1].v)), p + 2) ELSE InvalidSyntax
    ELSE POk(Alias(name, None), p)

\* import a.b [as c] (',' ...)*
RECURSIVE PImportNames(_, _, _)
PImportNames(ts, p, acc) ==
    Then(PDotted(ts, p, <<>>), LAMBDA d :
    Then(PAsName(ts, d.pos, d.node), LAMBDA a :
        IF OpAt(ts, a.pos, <<",">>) THEN PImportNames(ts, a.pos + 1, Append(acc, a.node))
        ELSE POk(Append(acc, a.node), a.pos)))

\* the names of from ... import: NAME ['as' NAME] (',' ...)*; node is
\* <<aliases, a trailing comma was read>>
RECURSIVE PFromNames(_, _, _)
PFromNames(ts, p, acc) ==
    IF ~IdentAt(ts, p) THEN (IF acc = <<>> THEN InvalidSyntax ELSE POk(<<acc, TRUE>>, p))
    ELSE Then(PAsName(ts, p + 1, ts[p].v), LAMBDA a :
             IF OpAt(ts, a.pos, <<",">>) THEN PFromNames(ts, a.pos + 1, Append(acc, a.node))
             ELSE POk(<<Append(acc, a.node), FALSE>>, a.pos))

\* the number of '.' tokens from p on
RECURSIVE DotsAt(_, _)
DotsAt(ts, p) == IF OpAt(ts, p, <<".">>) THEN 1 + DotsAt(ts, p + 1) ELSE 0

\* what follows 'import' in from ... import: * | (names [,]) | names
PFromTargets(ts, p, module, level, lineno) ==
    IF OpAt(ts, p, <<"*">>)
    THEN POk(ImportFrom(module, <<Alias(<<"*">>, None)>>, level, lineno), p + 1)
    ELSE IF OpAt(ts, p, <<"(">>) THEN
        Then(PFromNames(ts, p + 1, <<>>), LAMBDA ns :
            IF ~OpAt(ts, ns.pos, <<")">>) THEN InvalidSyntax
            ELSE POk(ImportFrom(module, ns.node[1], level, lineno), ns.pos + 1))
    ELSE Then(PFromNames(ts, p, <<>>), LAMBDA ns :
             IF ns.node[2]
             THEN PErr(<<"t","r","a","i","l","i","n","g"," ","c","o","m","m","a"," ","n","o","t"," ","a","l","l","o","w","e","d"," ","w","i","t","h","o","u","t"," ","s","u","r","r","o","u","n","d","i","n","g"," ","p","a","r","e","n","t","h","e","s","e","s">>)
             ELSE POk(ImportFrom(module, ns.node[1], level, lineno), ns.pos))

\* from [.]*module import ...; p is after 'from'
PImportFrom(ts, p, lineno) ==
    With(DotsAt(ts, p), LAMBDA level :
    With(IdentAt(ts, p + level), LAMBDA named :
    Then(IF named THEN PDotted(ts, p + level, <<>>) ELSE POk(<<>>, p + level), LAMBDA d :
        IF (~named /\ level = 0) \/ ~KwAt(ts, d.pos, <<"i","m","p","o","r","t">>) THEN InvalidSyntax
        ELSE PFromTargets(ts, d.pos + 1, IF named THEN Some(d.node) ELSE None, level, lineno))))

\* NAME [':' expr]: an arg and the position after it
PArg(ts, p) ==
    IF ~IdentAt(ts, p) THEN InvalidSyntax
    ELSE IF OpAt(ts, p + 1, <<":">>)
         THEN Then(PExpr(ts, p + 2), LAMBDA e : POk(Arg(ts[p].v, Some(e.node)), e.pos))
    ELSE POk(Arg(ts[p].v, None), p + 1)

NoArguments == Arguments(<<>>, <<>>, None, <<>>, None, <<>>)

\* the arguments a with one more parameter, keyword-only after '*'
AddParam(a, phase, arg, default) ==
    [a EXCEPT !.kwonlyargs = IF phase = "kw" THEN Append(@, arg) ELSE @,
              !.args = IF phase = "kw" THEN @ ELSE Append(@, arg),
              !.defaults = @ \o default]

\* the parameters of a def up to ')'.  a: the arguments so far; phase:
\* "pos" before '*', "kw" after it, "end" after '**name'; slash: '/' was
\* read; bare: the '*' had no name and no parameter has followed it yet
RECURSIVE PParams(_, _, _, _, _, _)

\* after a parameter: ',' and more parameters, or ')'
AfterParam(ts, p, a, phase, slash, bare) ==
    IF OpAt(ts, p, <<",">>) THEN PParams(ts, p + 1, a, phase, slash, bare)
    ELSE IF OpAt(ts, p, <<")">>) THEN PParams(ts, p, a, phase, slash, bare)
    ELSE InvalidSyntax

PParams(ts, p, a, phase, slash, bare) ==
    IF OpAt(ts, p, <<")">>) THEN
        IF bare THEN PErr(<<"n","a","m","e","d"," ","a","r","g","u","m","e","n","t","s"," ","m","u","s","t"," ","f","o","l","l","o","w"," ","b","a","r","e"," ","*">>) ELSE POk(a, p + 1)
    ELSE IF phase = "end" THEN PErr(<<"a","r","g","u","m","e","n","t","s"," ","c","a","n","n","o","t"," ","f","o","l","l","o","w"," ","v","a","r","-","k","e","y","w","o","r","d"," ","a","r","g","u","m","e","n","t">>)
    ELSE IF OpAt(ts, p, <<"/">>) THEN
        IF slash THEN PErr(<<"/"," ","m","a","y"," ","a","p","p","e","a","r"," ","o","n","l","y"," ","o","n","c","e">>)
        ELSE IF phase = "kw" THEN PErr(<<"/"," ","m","u","s","t"," ","b","e"," ","a","h","e","a","d"," ","o","f"," ","*">>)
        ELSE IF a.args = <<>> THEN InvalidSyntax
        ELSE AfterParam(ts, p + 1, [a EXCEPT !.posonlyargs = a.args, !.args = <<>>],
                        phase, TRUE, bare)
    ELSE IF OpAt(ts, p, <<"*","*">>) THEN
        Then(PArg(ts, p + 1), LAMBDA g :
            IF bare THEN PErr(<<"n","a","m","e","d"," ","a","r","g","u","m","e","n","t","s"," ","m","u","s","t"," ","f","o","l","l","o","w"," ","b","a","r","e"," ","*">>)
            ELSE IF OpAt(ts, g.pos, <<"=">>)
                 THEN PErr(<<"v","a","r","-","k","e","y","w","o","r","d"," ","a","r","g","u","m","e","n","t"," ","c","a","n","n","o","t"," ","h","a","v","e"," ","d","e","f","a","u","l","t"," ","v","a","l","u","e">>)
            ELSE AfterParam(ts, g.pos, [a EXCEPT !.kwarg = Some(g.node)], "end", slash, FALSE))
    ELSE IF OpAt(ts, p, <<"*">>) THEN
        IF phase = "kw" THEN PErr(<<"*"," ","a","r","g","u","m","e","n","t"," ","m","a","y"," ","a","p","p","e","a","r"," ","o","n","l","y"," ","o","n","c","e">>)
        ELSE IF OpAt(ts, p + 1, <<",">>) THEN PParams(ts, p + 2, a, "kw", slash, TRUE)
        ELSE IF OpAt(ts, p + 1, <<")">>) THEN PErr(<<"n","a","m","e","d"," ","a","r","g","u","m","e","n","t","s"," ","m","u","s","t"," ","f","o","l","l","o","w"," ","b","a","r","e"," ","*">>)
        ELSE Then(PArg(ts, p + 1), LAMBDA g :
                 IF OpAt(ts, g.pos, <<"=">>)
                 THEN PErr(<<"v","a","r","-","p","o","s","i","t","i","o","n","a","l"," ","a","r","g","u","m","e","n","t"," ","c","a","n","n","o","t"," ","h","a","v","e"," ","d","e","f","a","u","l","t"," ","v","a","l","u","e">>)
                 ELSE AfterParam(ts, g.pos, [a EXCEPT !.vararg = Some(g.node)], "kw", slash, FALSE))
    ELSE
        Then(PArg(ts, p), LAMBDA g :
        Then(IF OpAt(ts, g.pos, <<"=">>) THEN PExpr(ts, g.pos + 1) ELSE POk(<<>>, g.pos), LAMBDA dv :
            IF phase = "pos" /\ ~OpAt(ts, g.pos, <<"=">>) /\ a.defaults # <<>>
            THEN PErr(<<"n","o","n","-","d","e","f","a","u","l","t"," ","a","r","g","u","m","e","n","t"," ","f","o","l","l","o","w","s"," ","d","e","f","a","u","l","t"," ","a","r","g","u","m","e","n","t">>)
            ELSE AfterParam(ts, dv.pos,
                            AddParam(a, phase, g.node,
                                     IF OpAt(ts, g.pos, <<"=">>) THEN <<dv.node>> ELSE <<>>),
                            phase, slash, FALSE)))

IsTarget(n) == n.k \in {"Name", "Attribute", "Subscript"}

\* whether an expression may stand left of '=': a name, an attribute, a
\* subscript, or a tuple or list of such
RECURSIVE IsAssignable(_)
IsAssignable(n) ==
    \/ IsTarget(n)
    \/ n.k \in {"Tuple", "List"} /\ \A j \in 1..Len(n.elts) : IsAssignable(n.elts[j])

AugOps == {<<"+","=">>, <<"-","=">>, <<"*","=">>, <<"/","=">>}

\* '=' targets... value, after the first target: chained assignment
RECURSIVE PAssignRest(_, _, _, _)
PAssignRest(ts, p, targets, lineno) ==
    Then(PTupleExpr(ts, p), LAMBDA e :
        IF OpAt(ts, e.pos, <<"=">>) THEN PAssignRest(ts, e.pos + 1, Append(targets, e.node), lineno)
        ELSE IF \E j \in 1..Len(targets) : ~IsAssignable(targets[j])
             THEN PErr(<<"c","a","n","n","o","t"," ","a","s","s","i","g","n"," ","t","o"," ","e","x","p","r","e","s","s","i","o","n">>)
        ELSE POk(Assign(targets, e.node, lineno), e.pos))

\* target ':' annotation ['=' value], after the target e
PAnnotation(ts, e, lineno) ==
    IF e.node.k \in {"Tuple", "List"}
    THEN PErr(<<"o","n","l","y"," ","s","i","n","g","l","e"," ","t","a","r","g","e","t"," ","(","n","o","t"," ","t","u","p","l","e",")"," ","c","a","n"," ","b","e"," ","a","n","n","o","t","a","t","e","d">>)
    ELSE IF ~IsTarget(e.node) THEN PErr(<<"i","l","l","e","g","a","l"," ","t","a","r","g","e","t"," ","f","o","r"," ","a","n","n","o","t","a","t","i","o","n">>)
    ELSE Then(PExpr(ts, e.pos + 1), LAMBDA ann :
             IF OpAt(ts, ann.pos, <<"=">>)
             THEN Then(PTupleExpr(ts, ann.pos + 1), LAMBDA v :
                      POk(AnnAssign(e.node, ann.node, Some(v.node), lineno), v.pos))
             ELSE POk(AnnAssign(e.node, ann.node, None, lineno), ann.pos))

\* the statement that starts with the expression e: an assignment, an
\* annotated or augmented assignment, or the expression alone
PAfterExpr(ts, e, lineno) ==
    IF OpAt(ts, e.pos, <<"=">>) THEN PAssignRest(ts, e.pos + 1, <<e.node>>, lineno)
    ELSE IF OpAt(ts, e.pos, <<":">>) THEN PAnnotation(ts, e, lineno)
    ELSE IF ts[e.pos].t = "OP" /\ ts[e.pos].v \in AugOps THEN
        IF ~IsTarget(e.node) THEN PErr(<<"i","l","l","e","g","a","l"," ","e","x","p","r","e","s","s","i","o","n"," ","f","o","r"," ","a","u","g","m","e","n","t","e","d"," ","a","s","s","i","g","n","m","e","n","t">>)
        ELSE Then(PTupleExpr(ts, e.pos + 1), LAMBDA v :
                 POk(AugAssign(e.node, ts[e.pos].v, v.node, lineno), v.pos))
    ELSE POk(Expr(e.node, lineno), e.pos)

\* one simple statement
PSimple(ts, p) ==
    CASE KwAt(ts, p, <<"p","a","s","s">>) -> POk(Simple("Pass", ts[p].line), p + 1)
      [] KwAt(ts, p, <<"b","r","e","a","k">>) -> POk(Simple("Break", ts[p].line), p + 1)
      [] KwAt(ts, p, <<"c","o","n","t","i","n","u","e">>) -> POk(Simple("Continue", ts[p].line), p + 1)
      [] KwAt(ts, p, <<"r","e","t","u","r","n">>) ->
           IF StartsExpr(ts, p + 1)
           THEN Then(PTupleExpr(ts, p + 1), LAMBDA e :
                    POk(Return(Some(e.node), ts[p].line), e.pos))
           ELSE POk(Return(None, ts[p].line), p + 1)
      [] KwAt(ts, p, <<"i","m","p","o","r","t">>) ->
           Then(PImportNames(ts, p + 1, <<>>), LAMBDA ns :
               POk(Import(ns.node, ts[p].line), ns.pos))
      [] KwAt(ts, p, <<"f","r","o","m">>) -> PImportFrom(ts, p + 1, ts[p].line)
      [] StartsExpr(ts, p) ->
           Then(PTupleExpr(ts, p), LAMBDA e : PAfterExpr(ts, e, ts[p].line))
      [] OTHER -> InvalidSyntax

\* simple (';' simple)* [';'] NEWLINE: the statements of one line
RECURSIVE PSimpleLine(_, _, _)
PSimpleLine(ts, p, acc) ==
    Then(PSimple(ts, p), LAMBDA st :
        IF ts[st.pos].t = "NEWLINE" THEN POk(Append(acc, st.node), st.pos + 1)
        ELSE IF OpAt(ts, st.pos, <<";">>) THEN
            IF ts[st.pos + 1].t = "NEWLINE" THEN POk(Append(acc, st.node), st.pos + 2)
            ELSE PSimpleLine(ts, st.pos + 1, Append(acc, st.node))
        ELSE InvalidSyntax)

\* ('@' expr NEWLINE)*: the decorator expressions, outermost first
RECURSIVE PDecorators(_, _, _)
PDecorators(ts, p, acc) ==
    IF OpAt(ts, p, <<"@">>) THEN
        Then(PExpr(ts, p + 1), LAMBDA e :
            IF ts[e.pos].t # "NEWLINE" THEN InvalidSyntax
            ELSE PDecorators(ts, e.pos + 1, Append(acc, e.node)))
    ELSE POk(acc, p)

\* statements up to the end of the block or of the text
PStmts(ts, p, acc) ==
    IF ts[p].t \in {"DEDENT", "END"} THEN POk(acc, p)
    ELSE IF ts[p].t = "INDENT" THEN PErr(<<"u","n","e","x","p","e","c","t","e","d"," ","i","n","d","e","n","t">>)
    ELSE Then(PStmt(ts, p), LAMBDA st : PStmts(ts, st.pos, acc \o st.node))

\* ':' block, where block is the rest of the line or an indented suite
PBlock(ts, p) ==
    IF ~OpAt(ts, p, <<":">>) THEN PErr(<<"e","x","p","e","c","t","e","d"," ","'",":","'">>)
    ELSE IF ts[p + 1].t = "NEWLINE" THEN
        IF ts[p + 2].t # "INDENT" THEN PErr(<<"e","x","p","e","c","t","e","d"," ","a","n"," ","i","n","d","e","n","t","e","d"," ","b","l","o","c","k">>)
        ELSE Then(PStmts(ts, p + 3, <<>>), LAMBDA b : POk(b.node, b.pos + 1))
    ELSE PSimpleLine(ts, p + 1, <<>>)

\* 'def' NAME '(' params ')' ['->' expr] ':' block; p is at 'def'
PFuncDef(ts, p, kind, decorators, lineno) ==
    IF ~(IdentAt(ts, p + 1) /\ OpAt(ts, p + 2, <<"(">>)) THEN InvalidSyntax
    ELSE
      Then(PParams(ts, p + 3, NoArguments, "pos", FALSE, FALSE), LAMBDA ps :
      Then(IF OpAt(ts, ps.pos, <<"-",">">>) THEN PExpr(ts, ps.pos + 1) ELSE POk(<<>>, ps.pos),
           LAMBDA rt :
      Then(PBlock(ts, rt.pos), LAMBDA b :
          POk(<<FunctionDef(kind, ts[p + 1].v, ps.node, b.node, decorators,
                            IF OpAt(ts, ps.pos, <<"-",">">>) THEN Some(rt.node) ELSE None,
                            lineno)>>, b.pos))))

\* 'class' NAME ['(' arguments ')'] ':' block; p is at 'class'
PClassDef(ts, p, decorators) ==
    IF ~IdentAt(ts, p + 1) THEN InvalidSyntax
    ELSE
      Then(IF OpAt(ts, p + 2, <<"(">>) THEN PCallArgs(ts, p + 3, <<>>, <<>>)
           ELSE POk(<< <<>>, <<>> >>, p + 2), LAMBDA cargs :
      Then(PBlock(ts, cargs.pos), LAMBDA b :
          POk(<<ClassDef(ts[p + 1].v, cargs.node[1], cargs.node[2], b.node, decorators,
                         ts[p].line)>>, b.pos)))

\* ('if' | 'elif' | 'while') expr ':' block ['elif' ... | 'else' ':' block]
PIf(ts, p, kind) ==
    Then(PExpr(ts, p + 1), LAMBDA test :
    Then(PBlock(ts, test.pos), LAMBDA b :
    Then(IF kind = "If" /\ KwAt(ts, b.pos, <<"e","l","i","f">>) THEN PIf(ts, b.pos, "If")
         ELSE IF KwAt(ts, b.pos, <<"e","l","s","e">>) THEN PBlock(ts, b.pos + 1)
         ELSE POk(<<>>, b.pos), LAMBDA more :
        POk(<<If(kind, test.node, b.node, more.node, ts[p].line)>>, more.pos))))

\* the statement at q, after its decorators
PStmtAt(ts, q, decorators) ==
    IF KwAt(ts, q, <<"d","e","f">>) THEN PFuncDef(ts, q, "FunctionDef", decorators, ts[q].line)
    ELSE IF KwAt(ts, q, <<"a","s","y","n","c">>) /\ KwAt(ts, q + 1, <<"d","e","f">>)
         THEN PFuncDef(ts, q + 1, "AsyncFunctionDef", decorators, ts[q].line)
    ELSE IF KwAt(ts, q, <<"c","l","a","s","s">>) THEN PClassDef(ts, q, decorators)
    ELSE IF decorators # <<>> THEN InvalidSyntax
    ELSE IF KwAt(ts, q, <<"i","f">>) THEN PIf(ts, q, "If")
    ELSE IF KwAt(ts, q, <<"w","h","i","l","e">>) THEN PIf(ts, q, "While")
    ELSE PSimpleLine(ts, q, <<>>)

\* one statement, as the list of the nodes it gives (a line may hold
\* several simple statements)
PStmt(ts, p) ==
    Then(PDecorators(ts, p, <<>>), LAMBDA ds : PStmtAt(ts, ds.pos, ds.node))

\* the module of a token list
PModule(ts) == Then(PStmts(ts, 1, <<>>), LAMBDA b : POk(Module(b.node), b.pos))

(***************************************************************************)
(* ast.parse, ast.walk, ast.get_docstring and ast.unparse                  *)
(***************************************************************************)
\* the nodes directly below a node, in the order of ast.iter_child_nodes
\* (operator and expression-context nodes, which nothing inspects, left out)
Children(n) ==
    CASE n.k = "Module" -> n.body
      [] n.k \in {"FunctionDef", "AsyncFunctionDef"} ->
           <<n.args>> \o n.body \o n.decorator_list \o n.returns
      [] n.k = "ClassDef" -> n.bases \o n.keywords \o n.body \o n.decorator_list
      [] n.k = "Return" -> n.value
      [] n.k = "Assign" -> n.targets \o <<n.value>>
      [] n.k = "AugAssign" -> <<n.target, n.value>>
      [] n.k = "AnnAssign" -> <<n.target, n.annotation>> \o n.value
      [] n.k \in {"If", "While"} -> <<n.test>> \o n.body \o n.orelse
      [] n.k \in {"Import", "ImportFrom"} -> n.names
      [] n.k = "Expr" -> <<n.value>>
      [] n.k = "BinOp" -> <<n.left, n.right>>
      [] n.k = "UnaryOp" -> <<n.operand>>
      [] n.k = "Compare" -> <<n.left>> \o n.comparators
      [] n.k = "Call" -> <<n.func>> \o n.args \o n.keywords
      [] n.k \in {"keyword", "Attribute", "Starred"} -> <<n.value>>
      [] n.k = "Subscript" -> <<n.value, n.slice>>
      [] n.k \in {"Tuple", "List"} -> n.elts
      [] n.k = "arguments" ->
           n.posonlyargs \o n.args \o n.vararg \o n.kwonlyargs \o n.kwarg \o n.defaults
      [] n.k = "arg" -> n.annotation
      [] OTHER -> <<>>

Max(a, b) == IF a > b THEN a ELSE b

\* the number of nodes on the longest path from n down to a leaf
RECURSIVE AstDepth(_)
RECURSIVE MaxDepth(_)
AstDepth(n) == 1 + MaxDepth(Children(n))
MaxDepth(ns) == IF ns = <<>> THEN 0 ELSE Max(AstDepth(Head(ns)), MaxDepth(Tail(ns)))

\* ast.parse(content): the module, or the SyntaxError of the tokenizer or
\* of the parser, or the RecursionError that the conversion of a tree
\* deeper than the interpreter's limit raises
ast_parse(s) ==
    With(py_tokenize(s), LAMBDA t :
    With(IF t.ok THEN PModule(t.toks) ELSE PErr(t.msg), LAMBDA m :
        IF ~m.ok THEN [st |-> "SyntaxError", tree |-> <<>>, msg |-> m.msg]
        ELSE IF MaxDepth(m.node.body) > AstRecursionLimit
             THEN [st |-> "RecursionError", tree |-> <<>>, msg |-> <<>>]
        ELSE [st |-> "ok", tree |-> m.node, msg |-> <<>>]))

\* list(ast.walk(tree)): breadth first, nodes[k] being the next to expand
RECURSIVE Walk(_, _)
Walk(nodes, k) == IF k > Len(nodes) THEN nodes ELSE Walk(nodes \o Children(nodes[k]), k + 1)

\* a walk that stops at the statements of the module
ast_walk_module_body(tree) == <<tree>> \o tree.body

ast_walk(tree) == Walk(<<tree>>, 1)

\* sep.join(parts)
RECURSIVE JoinWith(_, _)
JoinWith(parts, sep) ==
    IF parts = <<>> THEN <<>>
    ELSE IF Len(parts) = 1 THEN Head(parts)
    ELSE Head(parts) \o sep \o JoinWith(Tail(parts), sep)

\* str.expandtabs(): tab stops every 8 columns; col is the column of Head(s)
ExpandTabs(s, col) ==
    Loop(LAMBDA st :
             IF s[st.i] = "\t"
             THEN [i |-> st.i + 1, col |-> 0, out |-> st.out \o Repeat(" ", 8 - (st.col % 8))]
             ELSE [i |-> st.i + 1, col |-> IF s[st.i] \in {"\n", "\r"} THEN 0 ELSE st.col + 1,
                   out |-> Append(st.out, s[st.i])],
         LAMBDA st : st.i > Len(s), [i |-> 1, col |-> col, out |-> <<>>], Len(s)).out

RECURSIVE DropLeadingEmpty(_)
DropLeadingEmpty(xs) ==
    IF xs # <<>> /\ Head(xs) = <<>> THEN DropLeadingEmpty(Tail(xs)) ELSE xs

RECURSIVE DropTrailingEmpty(_)
DropTrailingEmpty(xs) ==
    IF xs # <<>> /\ xs[Len(xs)] = <<>> THEN DropTrailingEmpty(SubSeq(xs, 1, Len(xs) - 1)) ELSE xs

\* the number of leading blanks of a line
Indent(l) == Len(l) - Len(LStrip(l))

\* the lines without the margin: the first stripped on the left, the
\* others cut by the least indentation of the non-blank lines after the first
Dedent(lines, indented) ==
    With(IF indented = {} THEN 0 ELSE Least({Indent(lines[k]) : k \in indented}),
         LAMBDA margin :
             [k \in 1..Len(lines) |->
                 IF k = 1 THEN LStrip(lines[k])
                 ELSE SubSeq(lines[k], margin + 1, Len(lines[k]))])

CleanLines(lines) ==
    JoinWith(DropLeadingEmpty(DropTrailingEmpty(
                 Dedent(lines, {k \in 2..Len(lines) : LStrip(lines[k]) # <<>>}))),
             <<"\n">>)

\* inspect.cleandoc(doc)
cleandoc(doc) == CleanLines(str_split(ExpandTabs(doc, 0), "\n"))

\* ast.get_docstring(node)
get_docstring(node) ==
    IF node.body # <<>> /\ node.body[1].k = "Expr" /\ node.body[1].value.k = "Constant"
       /\ node.body[1].value.kind = "str"
    THEN Some(cleandoc(node.body[1].value.value))
    ELSE None

\* repr of a str: single quotes unless the text has ' and no "
StrRepr(v) ==
    LET q == IF "'" \in Range(v) /\ "\"" \notin Range(v) THEN "\"" ELSE "'"
        esc(c) == CASE c = "\\" -> <<"\\","\\">> [] c = "\n" -> <<"\\","n">> [] c = "\t" -> <<"\\","t">>
                    [] c = "\r" -> <<"\\","r">> [] c = q -> <<"\\", q>> [] OTHER -> <<c>>
    IN  <<q>> \o str_join([k \in 1..Len(v) |-> esc(v[k])]) \o <<q>>

RECURSIVE StripZerosLeft(_)
StripZerosLeft(d) == IF Len(d) > 1 /\ Head(d) = "0" THEN StripZerosLeft(Tail(d)) ELSE d

RECURSIVE StripZerosRight(_)
StripZerosRight(d) ==
    IF Len(d) > 1 /\ d[Len(d)] = "0" THEN StripZerosRight(SubSeq(d, 1, Len(d) - 1)) ELSE d

\* repr of the int or float a NUMBER token denotes (floats from 0.0001 up
\* to sixteen digits, which repr writes without an exponent)
NumRepr(v) ==
    IF "." \notin Range(v) THEN StripZerosLeft(v)
    ELSE LET parts == str_split(v, ".")
         IN  StripZerosLeft(parts[1]) \o <<".">>
               \o (IF parts[2] = <<>> THEN <<"0">> ELSE StripZerosRight(parts[2]))

\* ast.unparse(node) for an expression; prec is the precedence of the
\* context, in the order of ast._Precedence: TUPLE 2, TEST 4, CMP 8, EXPR 9,
\* ARITH 14, TERM 15, FACTOR 16, ATOM 19
RECURSIVE Unparse(_, _)
UnparseItems(ns, prec) == JoinWith([k \in 1..Len(ns) |-> Unparse(ns[k], prec)], <<","," ">>)
ItemsView(ns) == IF Len(ns) = 1 THEN Unparse(ns[1], 4) \o <<",">> ELSE UnparseItems(ns, 4)
Parens(cond, text) == IF cond THEN <<"(">> \o text \o <<")">> ELSE text
Unparse(n, prec) ==
    CASE n.k = "Name" -> n.id
      [] n.k = "Constant" ->
           (CASE n.kind = "str" -> StrRepr(n.value) [] n.kind = "num" -> NumRepr(n.value)
              [] OTHER -> n.value)
      [] n.k = "Attribute" ->
           Unparse(n.value, 19)
             \o (IF n.value.k = "Constant" /\ n.value.kind = "num" /\ "." \notin Range(n.value.value)
                 THEN <<" ">> ELSE <<>>)
             \o <<".">> \o n.attr
      [] n.k = "Call" ->
           Unparse(n.func, 19) \o <<"(">>
             \o JoinWith([k \in 1..Len(n.args) |-> Unparse(n.args[k], 4)]
                           \o [k \in 1..Len(n.keywords) |-> Unparse(n.keywords[k], 4)], <<","," ">>)
             \o <<")">>
      [] n.k = "keyword" ->
           (IF n.arg = None THEN <<"*","*">> ELSE n.arg[1] \o <<"=">>) \o Unparse(n.value, 4)
      [] n.k = "Starred" -> <<"*">> \o Unparse(n.value, 9)
      [] n.k = "Subscript" ->
           Unparse(n.value, 19) \o <<"[">>
             \o (IF n.slice.k = "Tuple" /\ n.slice.elts # <<>> THEN ItemsView(n.slice.elts)
                 ELSE Unparse(n.slice, 4))
             \o <<"]">>
      [] n.k = "Tuple" -> Parens(n.elts = <<>> \/ prec > 2, ItemsView(n.elts))
      [] n.k = "List" -> <<"[">> \o UnparseItems(n.elts, 4) \o <<"]">>
      [] n.k = "UnaryOp" -> Parens(prec > 16, n.op \o Unparse(n.operand, 16))
      [] n.k = "BinOp" ->
           Parens(prec > 14, Unparse(n.left, 14) \o <<" ">> \o n.op \o <<" ">> \o Unparse(n.right, 15))
      [] n.k = "Compare" ->
           Parens(prec > 8,
                  Unparse(n.left, 9)
                    \o str_join([k \in 1..Len(n.ops) |->
                                    <<" ">> \o n.ops[k] \o <<" ">> \o Unparse(n.comparators[k], 9)]))

ast_unparse(node) == Unparse(node, 4)

(***************************************************************************)
(* FileAnalyzer.analyze_python                                             *)
(***************************************************************************)
\* a rendering that keeps the last name of a dotted path only
RECURSIVE decorator_last_name(_)
decorator_last_name(node) ==
    CASE node.k = "Name" -> node.id
      [] node.k = "Attribute" -> node.attr
      [] node.k = "Call" -> decorator_last_name(node.func)
      [] OTHER -> <<>>

RECURSIVE _get_decorator_name(_)
_get_decorator_name(node) ==
    CASE node.k = "Name" -> node.id
      [] node.k = "Attribute" -> _get_decorator_name(node.value) \o <<".">> \o node.attr
      [] node.k = "Call" -> _get_decorator_name(node.func)
      [] OTHER -> <<>>

\* the elements of the lists of a list, in order
RECURSIVE Flatten(_)
Flatten(xss) == IF xss = <<>> THEN <<>> ELSE Head(xss) \o Flatten(Tail(xss))

IsFunctionDef(n) == n.k \in {"FunctionDef", "AsyncFunctionDef"}

AliasNames(node) == [j \in 1..Len(node.names) |-> node.names[j].name]

py_function_info(node) ==
    FunctionInfo(node.name,
                 [j \in 1..Len(node.args.args) |-> node.args.args[j].arg],
                 get_docstring(node),
                 [j \in 1..Len(node.decorator_list) |-> _get_decorator_name(node.decorator_list[j])],
                 IF node.returns # None THEN Some(ast_unparse(node.returns[1])) ELSE None,
                 node.lineno,
                 node.k = "AsyncFunctionDef")

MethodNames(methods) == [j \in 1..Len(methods) |-> methods[j].name]

py_class_info(node) ==
    ClassInfo(node.name,
              [j \in 1..Len(node.bases) |-> ast_unparse(node.bases[j])],
              get_docstring(node),
              MethodNames(SelectSeq(node.body, IsFunctionDef)),
              node.lineno)

IsAssign(n) == n.k = "Assign"

TargetIds(targets) == [j \in 1..Len(targets) |-> targets[j].id]

\* the names bound by the given assignments for which keep holds
KeptNames(assigns, keep(_)) ==
    Flatten([j \in 1..Len(assigns) |->
                TargetIds(SelectSeq(assigns[j].targets,
                                    LAMBDA t : t.k = "Name" /\ keep(t.id)))])

\* the names bound by the top-level assignments for which keep holds
TopLevelNames(tree, keep(_)) == KeptNames(SelectSeq(tree.body, IsAssign), keep)

IsUpperName(name) == str_isupper(name)
IsOtherName(name) == ~str_isupper(name)

IsImport(n) == n.k = "Import"
IsImportFrom(n) == n.k = "ImportFrom"
IsClassDef(n) == n.k = "ClassDef"

ImportedNames(imports) == Flatten([j \in 1..Len(imports) |-> AliasNames(imports[j])])

FromImports(from_imports) ==
    [j \in 1..Len(from_imports) |->
        [module |-> IF from_imports[j].module = None THEN <<>> ELSE from_imports[j].module[1],
         names |-> AliasNames(from_imports[j])]]

FunctionInfos(functions) == [j \in 1..Len(functions) |-> py_function_info(functions[j])]

ClassInfos(classes) == [j \in 1..Len(classes) |-> py_class_info(classes[j])]

\* a test that knows the guard in its double-quoted form only
entry_point_double_quoted(text) == Contains(text, <<"i","f"," ","_","_","n","a","m","e","_","_"," ","=","="," ","\"","_","_","m","a","i","n","_","_","\"">>)

\* 'if __name__ == "__main__"' in content or
\* 'if __name__ == \'__main__\'' in content
entry_point(text) ==
    \/ Contains(text, <<"i","f"," ","_","_","n","a","m","e","_","_"," ","=","="," ","\"","_","_","m","a","i","n","_","_","\"">>)
    \/ Contains(text, <<"i","f"," ","_","_","n","a","m","e","_","_"," ","=","="," ","'","_","_","m","a","i","n","_","_","'">>)

\* PythonAnalysis.to_dict() of the analysis of a tree, nodes being its walk
PythonAnalysis(path, text, tree, nodes) ==
    [file_path |-> path,
     file_type |-> "python",
     module_docstring |-> get_docstring(tree),
     imports |-> ImportedNames(SelectSeq(nodes, IsImport)),
     from_imports |-> FromImports(SelectSeq(nodes, IsImportFrom)),
     functions |-> FunctionInfos(SelectSeq(nodes, IsFunctionDef)),
     classes |-> ClassInfos(SelectSeq(nodes, IsClassDef)),
     global_variables |-> TopLevelNames(tree, IsOtherName),
     constants |-> TopLevelNames(tree, IsUpperName),
     entry_point |-> entry_point(text)]

analyze_python(text, path) ==
    With(ast_parse(text), LAMBDA parsed :
        CASE parsed.st = "SyntaxError" ->
               Returned([file_path |-> path, file_type |-> "python",
                         error |-> <<"S","y","n","t","a","x"," ","e","r","r","o","r",":"," ">> \o parsed.msg])
          [] parsed.st = "RecursionError" -> Raised("RecursionError")
          [] OTHER -> Returned(PythonAnalysis(path, text, parsed.tree, ast_walk(parsed.tree))))
(***************************************************************************)
(* FileAnalyzer.analyze and the requests made of it.  A request has a      *)
(* path and a content and runs in a process with a hash seed; it ends by   *)
(* returning an envelope or by raising.  The same request may be made a    *)
(* second time, in a process of its own.                                   *)
(***************************************************************************)
\* the extension taken without lower-casing the path
ExtensionCaseSensitive(path) ==
    IF "." \in Range(path)
    THEN LET parts == str_split(path, ".") IN parts[Len(parts)]
    ELSE <<>>

\* ext = file_path.lower().split('.')[-1] if '.' in file_path else ''
Extension(path) ==
    IF "." \in Range(path)
    THEN LET parts == str_split(str_lower(path), ".") IN parts[Len(parts)]
    ELSE <<>>

ScriptExtensions == {<<"j","s">>, <<"j","s","x">>, <<"t","s">>, <<"t","s","x">>}

\* an envelope that echoes the path as the extension lookup reads it
UnsupportedEnvelopeLowered(path) ==
    [file_path |-> str_lower(path), file_type |-> "unknown",
     error |-> <<"U","n","s","u","p","p","o","r","t","e","d"," ","f","i","l","e"," ","t","y","p","e",":"," ">> \o Extension(path)]

UnsupportedEnvelope(path) ==
    [file_path |-> path, file_type |-> "unknown",
     error |-> <<"U","n","s","u","p","p","o","r","t","e","d"," ","f","i","l","e"," ","t","y","p","e",":"," ">> \o Extension(path)]

\* analyze(content, file_path) in a process with the given hash seed
analyze(text, path, seed) ==
    CASE Extension(path) = <<"p","y">> -> analyze_python(text, path)
      [] Extension(path) = <<"s","q","l">> -> analyze_sql(text, path, seed)
      [] Extension(path) = <<"i","p","y","n","b">> -> analyze_notebook(text, path, seed)
      [] Extension(path) \in ScriptExtensions -> analyze_javascript(text, path, seed)
      [] OTHER -> Returned(UnsupportedEnvelope(path))

\* the hash seeds a process may run with
MaxHashSeed == 1
HashSeeds == 0..MaxHashSeed

VARIABLES
    file_path,   \* the path of the request
    content,     \* its text
    hash_seed,   \* the hash seed of the process that runs it
    pc,          \* "call" before analyze runs, then "returned" or "raised"
    analyzer,    \* the analyzer analyze has invoked, "none" when it invoked none
    envelope,    \* the dict returned
    exception,   \* the exception raised, "none" when analyze returned
    previous,    \* the outcome of the first run when the request is made again
    calls,       \* the frame of each caller that invokes analyze concurrently
    containers,  \* the result containers, each under the one that holds it
    document     \* the row of the documents table a request of the files API names

vars ==
    <<file_path, content, hash_seed, pc, analyzer, envelope, exception, previous, calls,
      containers, document>>

NoRun == [pc |-> "none"]

\* no row: the request names no document
NoDocument == [id |-> "none"]

\* analyze has invoked the analyzer called name, which ended with outcome
Finish(name, outcome) ==
    /\ analyzer' = name
    /\ envelope' = outcome.ret
    /\ exception' = outcome.exc
    /\ pc' = IF outcome.exc = "none" THEN "returned" ELSE "raised"
    /\ UNCHANGED <<file_path, content, hash_seed, previous, calls, containers, document>>

AnalyzePython ==
    /\ pc = "call"
    /\ Extension(file_path) = <<"p","y">>
    /\ Finish("analyze_python", analyze_python(content, file_path))

AnalyzeSql ==
    /\ pc = "call"
    /\ Extension(file_path) = <<"s","q","l">>
    /\ Finish("analyze_sql", analyze_sql(content, file_path, hash_seed))

AnalyzeNotebook ==
    /\ pc = "call"
    /\ Extension(file_path) = <<"i","p","y","n","b">>
    /\ Finish("analyze_notebook", analyze_notebook(content, file_path, hash_seed))

AnalyzeJavascript ==
    /\ pc = "call"
    /\ Extension(file_path) \in ScriptExtensions
    /\ Finish("analyze_javascript", analyze_javascript(content, file_path, hash_seed))

AnalyzeUnsupported ==
    /\ pc = "call"
    /\ Extension(file_path) \notin {<<"p","y">>, <<"s","q","l">>, <<"i","p","y","n","b">>} \cup ScriptExtensions
    /\ Finish("none", Returned(UnsupportedEnvelope(file_path)))

\* the same (content, path) is analyzed again, in another process
Rerun ==
    /\ pc # "call"
    /\ previous = NoRun
    /\ previous' = [pc |-> pc, analyzer |-> analyzer, envelope |-> envelope,
                    exception |-> exception, hash_seed |-> hash_seed]
    /\ hash_seed' \in HashSeeds
    /\ pc' = "call"
    /\ analyzer' = "none"
    /\ envelope' = NoDict
    /\ exception' = "none"
    /\ UNCHANGED <<file_path, content, calls, containers, document>>

\* the content is dispatched again, in the same process, under the file_path
\* of the envelope that analyze returned
Redispatch ==
    /\ pc = "returned"
    /\ previous = NoRun
    /\ previous' = [pc |-> pc, analyzer |-> analyzer, envelope |-> envelope,
                    exception |-> exception, hash_seed |-> hash_seed]
    /\ file_path' = envelope.file_path
    /\ pc' = "call"
    /\ analyzer' = "none"
    /\ envelope' = NoDict
    /\ exception' = "none"
    /\ UNCHANGED <<content, hash_seed, calls, containers, document>>

\* a request for path and text, not yet run
Request(paths, texts) ==
    /\ file_path \in paths
    /\ content \in texts
    /\ hash_seed \in HashSeeds
    /\ pc = "call"
    /\ analyzer = "none"
    /\ envelope = NoDict
    /\ exception = "none"
    /\ previous = NoRun
    /\ calls = <<>>
    /\ containers = <<>>
    /\ document = NoDocument

(***************************************************************************)
(* Concurrent invocations of analyze on the singleton file_analyzer, in    *)
(* one process.  A caller's invocation is a frame: its arguments, the      *)
(* statement it has reached and the number of fields of the result it has  *)
(* filled in.  The analyzer creates the result's containers when it        *)
(* starts, fills them in one after another and returns them as the         *)
(* envelope; the callers' steps interleave in any order.                   *)
(***************************************************************************)
MaxCallers == 2
Callers == 1..MaxCallers

\* the singleton, as a holder of containers: FileAnalyzer has no __init__
\* and assigns no attribute of self
Singleton == 0

\* containers kept on the singleton, which every invocation shares
ContainerOnSingleton(t) == Singleton

\* the holder of the containers of caller t's invocation: the invocation
\* itself, which creates them (imports = [], analysis = PythonAnalysis(...))
ContainerOf(t) == t

NoFields == [f \in {} |-> <<>>]

\* d[f] = v
Store(d, f, v) == [g \in DOMAIN d \cup {f} |-> IF g = f THEN v ELSE d[g]]

\* the fields of the envelopes, in the order they are computed
AllFields ==
    <<"file_path", "file_type", "error", "module_docstring", "imports", "from_imports",
      "exports", "functions", "classes", "global_variables", "constants", "jsx_components",
      "hooks_used", "entry_point", "statement_types", "tables_referenced", "tables_created",
      "tables_modified", "ctes", "joins", "aggregations", "subqueries", "comments",
      "visualizations", "data_sources", "headings", "title", "total_cells", "code_cells",
      "markdown_cells">>

\* the fields of the result an invocation ends with, none when it raises
FieldsOf(outcome) ==
    IF outcome.exc = "none"
    THEN SelectSeq(AllFields, LAMBDA f : f \in DOMAIN outcome.ret)
    ELSE <<>>

Idle == [pc |-> "idle"]

\* another caller is in the middle of its analysis
OthersAnalyzing(t) ==
    \E u \in Callers \ {t} : calls[u].pc = "analyze" /\ calls[u].done > 0

\* file_analyzer.analyze(content, file_path)
Invoke(t, request) ==
    /\ calls[t].pc = "idle"
    /\ calls' = [calls EXCEPT ![t] = [pc |-> "dispatch", content |-> request.content,
                                      file_path |-> request.file_path]]
    /\ UNCHANGED <<file_path, content, hash_seed, pc, analyzer, envelope, exception,
                   previous, containers, document>>

\* the frame of an invocation whose analyzer has started: values is what
\* the analyzer computes, which depends on the arguments and on the hash
\* seed only and so is what the same call run alone ends with
Started(frame, outcome) ==
    [pc |-> "analyze", content |-> frame.content, file_path |-> frame.file_path,
     alone |-> outcome, values |-> outcome, done |-> 0, overlapped |-> FALSE]

\* the dispatch on the extension, and the start of the analyzer, which
\* creates its containers
Dispatch(t) ==
    /\ calls[t].pc = "dispatch"
    /\ calls' = [calls EXCEPT ![t] =
                    Started(calls[t], analyze(calls[t].content, calls[t].file_path, hash_seed))]
    /\ containers' = [containers EXCEPT ![ContainerOf(t)] = NoFields]
    /\ UNCHANGED <<file_path, content, hash_seed, pc, analyzer, envelope, exception,
                   previous, document>>

\* the analyzer fills in the next field of its result
Fill(t) ==
    /\ calls[t].pc = "analyze"
    /\ calls[t].done < Len(FieldsOf(calls[t].values))
    /\ containers' =
          [containers EXCEPT ![ContainerOf(t)] =
              Store(@, FieldsOf(calls[t].values)[calls[t].done + 1],
                    calls[t].values.ret[FieldsOf(calls[t].values)[calls[t].done + 1]])]
    /\ calls' = [calls EXCEPT ![t].done = @ + 1,
                              ![t].overlapped = @ \/ OthersAnalyzing(t)]
    /\ UNCHANGED <<file_path, content, hash_seed, pc, analyzer, envelope, exception,
                   previous, document>>

\* the analyzer returns its result, or raises
ReturnOrRaise(t) ==
    /\ calls[t].pc = "analyze"
    /\ calls[t].done = Len(FieldsOf(calls[t].values))
    /\ calls' = [calls EXCEPT ![t] =
                    [pc |-> IF calls[t].values.exc = "none" THEN "returned" ELSE "raised",
                     content |-> calls[t].content,
                     file_path |-> calls[t].file_path,
                     alone |-> calls[t].alone,
                     overlapped |-> calls[t].overlapped,
                     envelope |-> IF calls[t].values.exc = "none"
                                  THEN containers[ContainerOf(t)] ELSE NoDict,
                     exception |-> calls[t].values.exc]]
    /\ UNCHANGED <<file_path, content, hash_seed, pc, analyzer, envelope, exception,
                   previous, containers, document>>

\* the process before any caller has invoked analyze
NoCalls ==
    /\ file_path = <<>>
    /\ content = <<>>
    /\ hash_seed \in HashSeeds
    /\ pc = "none"
    /\ analyzer = "none"
    /\ envelope = NoDict
    /\ exception = "none"
    /\ previous = NoRun
    /\ calls = [t \in Callers |-> Idle]
    /\ containers = [h \in Callers \cup {Singleton} |-> NoFields]
    /\ document = NoDocument

(***************************************************************************)
(* The files API (backend/app/api/files.py): the file type it derives      *)
(* from a path                                                             *)
(***************************************************************************)
SUPPORTED_EXTENSIONS ==
    << [ext |-> <<"p","y">>, type |-> "python"],
       [ext |-> <<"s","q","l">>, type |-> "sql"],
       [ext |-> <<"i","p","y","n","b">>, type |-> "ipynb"],
       [ext |-> <<"j","s">>, type |-> "javascript"],
       [ext |-> <<"j","s","x">>, type |-> "javascript"],
       [ext |-> <<"t","s">>, type |-> "typescript"],
       [ext |-> <<"t","s","x">>, type |-> "typescript"] >>

\* a lookup that does not lower-case the name
get_file_type_case_sensitive(filename) ==
    IF \E k \in 1..Len(SUPPORTED_EXTENSIONS) :
          SUPPORTED_EXTENSIONS[k].ext = ExtensionCaseSensitive(filename)
    THEN Some(SUPPORTED_EXTENSIONS[CHOOSE k \in 1..Len(SUPPORTED_EXTENSIONS) :
                 SUPPORTED_EXTENSIONS[k].ext = ExtensionCaseSensitive(filename)].type)
    ELSE None

\* ext = filename.lower().split('.')[-1] if '.' in filename else ''
\* return SUPPORTED_EXTENSIONS.get(ext)
get_file_type(filename) ==
    IF \E k \in 1..Len(SUPPORTED_EXTENSIONS) : SUPPORTED_EXTENSIONS[k].ext = Extension(filename)
    THEN Some(SUPPORTED_EXTENSIONS[CHOOSE k \in 1..Len(SUPPORTED_EXTENSIONS) :
                                       SUPPORTED_EXTENSIONS[k].ext = Extension(filename)].type)
    ELSE None

\* FILE_TYPE_SECTIONS of schemas/file_doc.py
FILE_TYPE_SECTIONS ==
    << [type |-> "python",
        sections |-> <<<<"F","i","l","e"," ","O","v","e","r","v","i","e","w">>,
                       <<"M","o","d","u","l","e"," ","D","e","p","e","n","d","e","n","c","i","e","s">>,
                       <<"F","u","n","c","t","i","o","n","s">>,
                       <<"C","l","a","s","s","e","s">>,
                       <<"C","o","n","s","t","a","n","t","s"," ","a","n","d"," ","C","o","n","f","i","g","u","r","a","t","i","o","n">>,
                       <<"U","s","a","g","e"," ","E","x","a","m","p","l","e","s">>,
                       <<"E","r","r","o","r"," ","H","a","n","d","l","i","n","g">>,
                       <<"T","e","s","t","i","n","g"," ","N","o","t","e","s">>>>],
       [type |-> "sql",
        sections |-> <<<<"Q","u","e","r","y"," ","O","v","e","r","v","i","e","w">>,
                       <<"T","a","b","l","e","s"," ","R","e","f","e","r","e","n","c","e","d">>,
                       <<"D","a","t","a"," ","T","r","a","n","s","f","o","r","m","a","t","i","o","n","s">>,
                       <<"C","T","E","s"," ","a","n","d"," ","S","u","b","q","u","e","r","i","e","s">>,
                       <<"J","o","i","n"," ","L","o","g","i","c">>,
                       <<"A","g","g","r","e","g","a","t","i","o","n","s">>,
                       <<"P","e","r","f","o","r","m","a","n","c","e"," ","C","o","n","s","i","d","e","r","a","t","i","o","n","s">>,
                       <<"B","u","s","i","n","e","s","s"," ","L","o","g","i","c">>>>],
       [type |-> "ipynb",
        sections |-> <<<<"N","o","t","e","b","o","o","k"," ","O","v","e","r","v","i","e","w">>,
                       <<"D","a","t","a"," ","S","o","u","r","c","e","s">>,
                       <<"D","a","t","a"," ","P","r","o","c","e","s","s","i","n","g"," ","S","t","e","p","s">>,
                       <<"V","i","s","u","a","l","i","z","a","t","i","o","n","s">>,
                       <<"K","e","y"," ","F","i","n","d","i","n","g","s">>,
                       <<"D","e","p","e","n","d","e","n","c","i","e","s">>,
                       <<"R","e","p","r","o","d","u","c","i","b","i","l","i","t","y"," ","N","o","t","e","s">>>>],
       [type |-> "javascript",
        sections |-> <<<<"M","o","d","u","l","e"," ","O","v","e","r","v","i","e","w">>,
                       <<"D","e","p","e","n","d","e","n","c","i","e","s">>,
                       <<"C","o","m","p","o","n","e","n","t","s">>,
                       <<"F","u","n","c","t","i","o","n","s"," ","a","n","d"," ","U","t","i","l","i","t","i","e","s">>,
                       <<"S","t","a","t","e"," ","M","a","n","a","g","e","m","e","n","t">>,
                       <<"A","P","I"," ","I","n","t","e","g","r","a","t","i","o","n">>,
                       <<"T","e","s","t","i","n","g"," ","N","o","t","e","s">>>>] >>

\* FILE_TYPE_SECTIONS.get(file_type, ["File Overview", "Content", "Notes"])
get_suggested_sections(file_type) ==
    IF \E k \in 1..Len(FILE_TYPE_SECTIONS) : FILE_TYPE_SECTIONS[k].type = file_type
    THEN FILE_TYPE_SECTIONS[CHOOSE k \in 1..Len(FILE_TYPE_SECTIONS) :
                               FILE_TYPE_SECTIONS[k].type = file_type].sections
    ELSE <<<<"F","i","l","e"," ","O","v","e","r","v","i","e","w">>, <<"C","o","n","t","e","n","t">>, <<"N","o","t","e","s">>>>

\* FileAnalysisResponse(file_path=..., file_type=..., analysis=...,
\*                      suggested_sections=...)
FileAnalysisResponse(path, file_type, analysis) ==
    [file_path |-> path, file_type |-> file_type, analysis |-> analysis,
     suggested_sections |-> get_suggested_sections(file_type)]

\* raise HTTPException(status_code=..., detail=...): the handler ends without
\* having called the analyzer
Reject(status) ==
    /\ pc' = "raised"
    /\ exception' = status
    /\ UNCHANGED <<file_path, content, hash_seed, analyzer, envelope, previous, calls,
                   containers, document>>

\* the handler has called file_analyzer.analyze on the mock content, which
\* ended with outcome; saved is the row as the handler leaves it
Answer(mock_content, outcome, file_type, saved) ==
    /\ content' = mock_content
    /\ analyzer' = "analyze"
    /\ pc' = IF outcome.exc = "none" THEN "returned" ELSE "raised"
    /\ exception' = outcome.exc
    /\ envelope' = IF outcome.exc = "none"
                   THEN FileAnalysisResponse(file_path, file_type, outcome.ret)
                   ELSE NoDict
    /\ document' = IF outcome.exc = "none" THEN saved ELSE document
    /\ UNCHANGED <<file_path, hash_seed, previous, calls, containers>>

\* POST /projects/{project_id}/files/analyze, for a project that the query
\* finds or does not find
analyze_file ==
    /\ pc = "call"
    /\ document = NoDocument
    /\ \E project_found \in BOOLEAN :
          IF ~project_found THEN Reject("HTTPException 404")
          ELSE IF get_file_type(file_path) = None THEN Reject("HTTPException 400")
          ELSE Answer(<<"#"," ","M","o","c","k"," ","c","o","n","t","e","n","t"," ","f","o","r"," ">> \o file_path,
                      analyze(<<"#"," ","M","o","c","k"," ","c","o","n","t","e","n","t"," ","f","o","r"," ">> \o file_path, file_path, hash_seed),
                      get_file_type(file_path)[1], document)

\* json.dumps(analysis), kept as the dict it renders
json_dumps(analysis) == [json |-> analysis]

\* the type the handler works with: document.file_type or
\* get_file_type(document.file_path)
DocumentFileType(row) ==
    IF row.file_type \notin {None, Some("")} THEN row.file_type
    ELSE get_file_type(row.file_path[1])

\* POST /documents/{document_id}/analyze-file; the request's path is the one
\* of the row
analyze_document_file ==
    /\ pc = "call"
    /\ document # NoDocument
    /\ IF ~document.found THEN Reject("HTTPException 404")
       ELSE IF ~document.is_file_level \/ document.file_path \in {None, Some(<<>>)}
            THEN Reject("HTTPException 400")
       ELSE IF DocumentFileType(document) = None THEN Reject("HTTPException 400")
       ELSE /\ file_path = document.file_path[1]
            /\ With(analyze(<<"#"," ","C","o","n","t","e","n","t"," ","f","o","r"," ">> \o file_path, file_path, hash_seed),
                    LAMBDA outcome :
                       Answer(<<"#"," ","C","o","n","t","e","n","t"," ","f","o","r"," ">> \o file_path, outcome,
                              DocumentFileType(document)[1],
                              [document EXCEPT !.file_analysis = Some(json_dumps(outcome.ret))]))
(***************************************************************************)
(* The requests checked: paths, and texts made of a few words each         *)
(***************************************************************************)
\* the texts made by writing up to n of the words one after another
RECURSIVE Concats(_, _)
Concats(words, n) ==
    IF n = 0 THEN {<<>>}
    ELSE LET shorter == Concats(words, n - 1)
         IN  shorter \cup {t \o w : t \in shorter, w \in words}

Paths ==
    {<<"a",".","p","y">>, <<"a",".","P","Y">>, <<".","p","y">>, <<"p","y">>, <<"a",".","p","y",".">>, <<"a",".","p","y","/","b">>, <<"a",".","p","y","c">>, <<"a",".","s","q","l">>, <<"a",".","b",".","S","Q","L">>,
     <<"A",".","I","p","y","n","b">>, <<"a",".","j","s">>, <<"a",".","j","s"," ">>, <<"a",".","j","s","x">>, <<"a",".","t","s">>, <<"a",".","T","S","X">>, <<"a",".","t","x","t">>, <<"R","E","A","D","M","E">>}

MixedTexts ==
    {<<"x"," ","="," ","1">>,
     <<"s","e","l","e","c","t"," ","*"," ","f","r","o","m"," ","a"," ","j","o","i","n"," ","b"," ","j","o","i","n"," ","c"," ","j","o","i","n"," ","d">>,
     <<"{","\"","c","e","l","l","s","\"",":"," ","[","]","}">>,
     <<"e","x","p","o","r","t"," ","c","o","n","s","t"," ","u","s","e","T","h","i","n","g"," ","="," ","(",")"," ","=",">"," ","{","}">>}

MaxSqlWords == 2
SqlWords ==
    {<<"s","e","l","e","c","t"," ","s","u","m","(","x",")",","," ","S","U","M","(","y",")"," ","f","r","o","m"," ","a"," ">>,
     <<"l","e","f","t"," ","j","o","i","n"," ","b"," ">>,
     <<"i","n","n","e","r"," "," ","J","O","I","N"," ","c"," ">>,
     <<"J","o","i","n"," ","d"," ","w","h","e","r","e"," ","C","o","u","n","t"," ","(","z",")"," ">>,
     <<"f","r","o","m"," ","(","s","e","l","e","c","t"," ","m","a","x","(","w",")"," ","f","r","o","m"," ","a",")"," ">>}
SqlTexts == Concats(SqlWords, MaxSqlWords)

MaxScriptWords == 2
ScriptWords ==
    {<<"e","x","p","o","r","t"," ","c","o","n","s","t"," ","u","s","e","T","h","i","n","g"," ","="," ","(",")"," ","=",">"," ","{","}","\n">>,
     <<"u","s","e","T","h","i","n","g","(",")",";","\n">>,
     <<"m","o","d","u","l","e",".","e","x","p","o","r","t","s"," ","="," ","f","o","o",";","\n">>,
     <<"e","x","p","o","r","t"," ","{"," ","a",","," ","b"," ","a","s"," ","c"," ","}",";","\n">>,
     <<"e","x","p","o","r","t"," ","f","u","n","c","t","i","o","n"," ","F","(","x",")"," ","{","}","\n">>}
ScriptTexts == Concats(ScriptWords, MaxScriptWords)

\* notebook texts: a value for "cells", and cells with a value for "source"
CellsValues ==
    {<<"3">>, <<"n","u","l","l">>, <<"\"","a","b","\"">>, <<"{","\"","a","\"",":"," ","1","}">>, <<"[","1","]">>, <<"[","[","]","]">>, <<"[","]">>, <<"{","}">>, <<"\"","\"">>}
CellTypes == {<<"c","o","d","e">>, <<"m","a","r","k","d","o","w","n">>, <<"r","a","w">>}
SourceValues ==
    {<<"3">>, <<"n","u","l","l">>, <<"t","r","u","e">>, <<"[","1","]">>, <<"[","[","\"","a","\"","]","]">>, <<"{","}">>, <<"\"","i","m","p","o","r","t"," ","o","s","\\","n","#"," ","T","\"">>,
     <<"[","\"","i","m","p","o","r","t"," ","o","s","\\","n","\"",","," ","\"","#"," ","T","\"","]">>}
CellText(type, source) ==
    <<"{","\"","c","e","l","l","_","t","y","p","e","\"",":"," ","\"">> \o type \o <<"\"",","," ","\"","s","o","u","r","c","e","\"",":"," ">> \o source \o <<"}">>
NotebookText(cells) == <<"{","\"","c","e","l","l","s","\"",":"," ">> \o cells \o <<"}">>
NotebookTexts ==
    {<<"[","]">>, <<"1">>, <<"n","u","l","l">>, <<"\"","s","\"">>, <<"{","}">>, <<>>, <<"{">>, <<"{","\"","c","e","l","l","s","\"",":"," ","[","}">>, <<"[","[","[","[","[","[","1","]","]","]","]","]","]">>,
     <<"[","[","[","[","[","[","[">>, <<"{","\"","c","e","l","l","s","\"",":"," ","[","[","[","[","[","[","[">>, <<"n","u","l">>, <<"{","'","c","e","l","l","s","'",":"," ","[","]","}">>, <<"{","\"","c","e","l","l","s","\"",":"," ","[","]","}"," ","x">>}
      \cup {NotebookText(v) : v \in CellsValues}
      \cup {NotebookText(<<"[">> \o CellText(t, v) \o <<"]">>) : t \in CellTypes, v \in SourceValues}

MaxPythonLines == 2
PythonLines ==
    {<<"i","m","p","o","r","t"," ","o","s","\n">>,
     <<"X"," ","="," ","y"," ","="," ","f","(","1",")","\n">>,
     <<"d","e","f"," ","f","(","a",","," ","b",")",":","\n"," "," ","r","e","t","u","r","n"," ","a","\n">>,
     <<"c","l","a","s","s"," ","C","(","B",")",":","\n"," "," ","p","a","s","s","\n">>,
     <<" "," ","z"," ","="," ","2","\n">>,
     <<"x"," ","="," ","(","1",",","\n">>,
     <<"v"," ","="," ","a",".","b",".","c",".","d",".","e",".","f",".","g",".","h",".","i",".","j",".","k",".","l","\n">>}
PythonTexts ==
    Concats(PythonLines, MaxPythonLines)
      \cup {<<"d","e","f"," ","f","(",":">>, <<"x"," ","="," ","'","a">>, <<"f","(","x",")",")">>, <<"1"," ","+">>, <<"i","f"," ","x",":","\n","p","a","s","s">>, <<"x"," ","="," ","-","-","-","-","-","-","-","-","-","-","-","-","1">>,
            <<"f","(","g","(","h","(","i",")",")",")">>, <<"@","d","\n","x"," ","="," ","1">>, <<"\"","\"","\"","d","o","c","\"","\"","\"","\n","a","s","y","n","c"," ","d","e","f"," ","g","(",")",":"," ","p","a","s","s">>}

Init == Request(Paths, MixedTexts)
Next ==
    \/ AnalyzePython
    \/ AnalyzeSql
    \/ AnalyzeNotebook
    \/ AnalyzeJavascript
    \/ AnalyzeUnsupported
    \/ Rerun
Spec == Init /\ [][Next]_vars

InitPython == Request({<<"q",".","p","y">>}, PythonTexts)
NextPython == AnalyzePython \/ Rerun
SpecPython == InitPython /\ [][NextPython]_vars

InitSql == Request({<<"q",".","s","q","l">>}, SqlTexts)
NextSql == AnalyzeSql \/ Rerun
SpecSql == InitSql /\ [][NextSql]_vars

InitNotebook == Request({<<"q",".","i","p","y","n","b">>}, NotebookTexts)
NextNotebook == AnalyzeNotebook \/ Rerun
SpecNotebook == InitNotebook /\ [][NextNotebook]_vars

InitScript == Request({<<"q",".","j","s">>, <<"q",".","t","s","x">>}, ScriptTexts)
NextScript == AnalyzeJavascript \/ Rerun
SpecScript == InitScript /\ [][NextScript]_vars

\* SQL and script texts alike given to the two analyzers that never fail
InitHeuristic == Request({<<"q",".","s","q","l">>, <<"q",".","j","s">>}, SqlTexts \cup ScriptTexts \cup MixedTexts)
NextHeuristic == AnalyzeSql \/ AnalyzeJavascript
SpecHeuristic == InitHeuristic /\ [][NextHeuristic]_vars

(***************************************************************************)
(* Python texts made of whole definitions: functions at module level, in   *)
(* a class and in a function, with the kinds of parameter and of           *)
(* decorator the grammar allows                                            *)
(***************************************************************************)
MaxDefinitions == 2
Definitions ==
    {<<"d","e","f"," ","f","o","o","(","a",","," ","b",")",":","\n"," "," "," "," ","\"","\"","\"","d","o","c","\"","\"","\"","\n"," "," "," "," ","p","a","s","s","\n">>,
     <<"@","a","p","p",".","g","e","t","(","\"","/","x","\"",")","\n","@","d","\n","a","s","y","n","c"," ","d","e","f"," ","h","(",")",":","\n"," "," "," "," ","p","a","s","s","\n">>,
     <<"c","l","a","s","s"," ","C",":","\n"," "," ","@","a",".","b",".","c","(","1",")","(","2",")","\n"," "," ","d","e","f"," ","m","(","s","e","l","f",","," ","*","r",","," ","k","=","1",","," ","*","*","k","w",")",":"," ","p","a","s","s","\n">>,
     <<"d","e","f"," ","p","(","a",","," ","/",","," ","b",")",":","\n"," "," ","a","s","y","n","c"," ","d","e","f"," ","q","(","x",")",":"," ","p","a","s","s","\n">>,
     <<"@","t","[","0","]","\n","d","e","f"," ","s","(",")",":"," ","p","a","s","s","\n">>}
DefinitionTexts == Concats(Definitions, MaxDefinitions)

InitFunctions == Request({<<"q",".","p","y">>}, DefinitionTexts)
NextFunctions == AnalyzePython \/ Rerun
SpecFunctions == InitFunctions /\ [][NextFunctions]_vars

(***************************************************************************)
(* Notebooks of one or two cells whose sources are markdown texts with     *)
(* headings of several levels                                              *)
(***************************************************************************)
MarkdownValues ==
    {<<"\"","#"," ","T","i","t","l","e","\"">>,
     <<"\"","#","#"," ","S","u","b","\\","n","#"," ","T","i","t","l","e","\"">>,
     <<"\"","t","e","x","t","\\","n","#","#","#"," ","D","e","e","p","\"">>,
     <<"\"","p","l","a","i","n","\"">>,
     <<"[","\"","#"," ","A","\\","n","\"",","," ","\"","#"," ","B","\"","]">>,
     <<"\"","#","N","o","S","p","a","c","e","\"">>}
HeadingTexts ==
    {NotebookText(<<"[">> \o CellText(t, v) \o <<"]">>) : t \in {<<"m","a","r","k","d","o","w","n">>, <<"c","o","d","e">>}, v \in MarkdownValues}
      \cup {NotebookText(<<"[">> \o CellText(<<"m","a","r","k","d","o","w","n">>, v) \o <<","," ">> \o CellText(<<"m","a","r","k","d","o","w","n">>, w) \o <<"]">>) :
               v \in MarkdownValues, w \in MarkdownValues}

InitHeadings == Request({<<"q",".","i","p","y","n","b">>}, HeadingTexts)
NextHeadings == AnalyzeNotebook \/ Rerun
SpecHeadings == InitHeadings /\ [][NextHeadings]_vars

(***************************************************************************)
(* Notebooks of one code cell with many import lines, some of them more    *)
(* than the envelope keeps, with and without a repeated line               *)
(***************************************************************************)
\* imports=list(set(imports))[:20]
ImportsCap == 20

MaxImportLines == 22
ImportCounts == (0..2) \cup ((ImportsCap - 2)..MaxImportLines)

\* the source, as a JSON string's content, of n import lines of different
\* modules, the newline between two lines written as the escape \n
RECURSIVE ImportSource(_)
ImportSource(n) ==
    IF n = 0 THEN <<>>
    ELSE ImportSource(n - 1) \o (IF n = 1 THEN <<>> ELSE <<"\\","n">>) \o <<"i","m","p","o","r","t"," ">> \o <<LowerCs[n]>>

ImportTexts ==
    {NotebookText(<<"[">> \o CellText(<<"c","o","d","e">>, <<"\"">> \o ImportSource(n) \o again \o <<"\"">>) \o <<"]">>) :
        n \in ImportCounts, again \in {<<>>, <<"\\","n","i","m","p","o","r","t"," ","a">>}}

InitImports == Request({<<"q",".","i","p","y","n","b">>}, ImportTexts)
NextImports == AnalyzeNotebook \/ Rerun
SpecImports == InitImports /\ [][NextImports]_vars

(***************************************************************************)
(* Concurrent requests: one that an analyzer answers with an analysis,     *)
(* one on which it raises, and one no analyzer takes                       *)
(***************************************************************************)
ConcurrentRequests ==
    {[file_path |-> <<"a",".","s","q","l">>, content |-> <<"s","e","l","e","c","t"," ","s","u","m","(","x",")"," ","f","r","o","m"," ","a"," ","j","o","i","n"," ","b">>],
     [file_path |-> <<"a",".","i","p","y","n","b">>, content |-> <<"[","]">>],
     [file_path |-> <<"R","E","A","D","M","E">>, content |-> <<"x"," ","="," ","1">>]}

InitConcurrent == NoCalls
NextConcurrent ==
    \E t \in Callers :
        \/ \E request \in ConcurrentRequests : Invoke(t, request)
        \/ Dispatch(t)
        \/ Fill(t)
        \/ ReturnOrRaise(t)
SpecConcurrent == InitConcurrent /\ [][NextConcurrent]_vars

(***************************************************************************)
(* Python texts made of assignments: at module level, to one name, to      *)
(* several, under a condition, annotated, and inside a function or class   *)
(***************************************************************************)
MaxAssignments == 2
Assignments ==
    {<<"M","A","X"," ","="," ","5","\n">>,
     <<"c","o","u","n","t"," ","="," ","0","\n">>,
     <<"X"," ","="," ","y"," ","="," ","1","\n">>,
     <<"a",","," ","B"," ","="," ","1",","," ","2","\n">>,
     <<"d","e","f"," ","f","(",")",":","\n"," "," ","Z"," ","="," ","1","\n">>,
     <<"c","l","a","s","s"," ","C",":","\n"," "," ","w"," ","="," ","1","\n">>,
     <<"x",":"," ","i","n","t"," ","="," ","1","\n">>,
     <<"i","f"," ","x",":","\n"," "," ","Y"," ","="," ","1","\n">>}
AssignmentTexts == Concats(Assignments, MaxAssignments)

InitAssignments == Request({<<"q",".","p","y">>}, AssignmentTexts)
NextAssignments == AnalyzePython \/ Rerun
SpecAssignments == InitAssignments /\ [][NextAssignments]_vars

(***************************************************************************)
(* Python texts with the entry-point guard: in both quoting styles, with   *)
(* white space before the colon, in a comment, in a string, and written    *)
(* without spaces                                                          *)
(***************************************************************************)
MaxGuardLines == 2
GuardLines ==
    {<<"i","f"," ","_","_","n","a","m","e","_","_"," ","=","="," ","\"","_","_","m","a","i","n","_","_","\"",":","\n"," "," ","p","a","s","s","\n">>,
     <<"i","f"," ","_","_","n","a","m","e","_","_"," ","=","="," ","'","_","_","m","a","i","n","_","_","'",":","\n"," "," ","p","a","s","s","\n">>,
     <<"i","f"," ","_","_","n","a","m","e","_","_"," ","=","="," ","\"","_","_","m","a","i","n","_","_","\""," ",":","\n"," "," ","p","a","s","s","\n">>,
     <<"#"," ","i","f"," ","_","_","n","a","m","e","_","_"," ","=","="," ","'","_","_","m","a","i","n","_","_","'","\n">>,
     <<"x"," ","="," ","'","i","f"," ","_","_","n","a","m","e","_","_"," ","=","="," ","\"","_","_","m","a","i","n","_","_","\"",":","'","\n">>,
     <<"i","f"," ","_","_","n","a","m","e","_","_","=","=","\"","_","_","m","a","i","n","_","_","\"",":","\n"," "," ","p","a","s","s","\n">>,
     <<"x"," ","="," ","1","\n">>}
GuardTexts == Concats(GuardLines, MaxGuardLines)

InitGuards == Request({<<"q",".","p","y">>}, GuardTexts)
NextGuards == AnalyzePython \/ Rerun
SpecGuards == InitGuards /\ [][NextGuards]_vars

(***************************************************************************)
(* SQL texts of FROM and JOIN clauses, with a table whose name ends in     *)
(* "join"                                                                  *)
(***************************************************************************)
MaxJoinWords == 2
JoinWords ==
    {<<"S","E","L","E","C","T"," ","*"," ","F","R","O","M"," ","o","r","d","e","r","s"," ","o"," ">>,
     <<"L","E","F","T"," ","J","O","I","N"," ","c","u","s","t","o","m","e","r","s"," ","c"," ","O","N"," ","o",".","c","i","d"," ","="," ","c",".","i","d"," ">>,
     <<"s","e","l","e","c","t"," ","*"," ","f","r","o","m"," ","l","e","f","t","j","o","i","n"," ">>,
     <<"j","o","i","n"," ","o","r","d","e","r","s"," ">>,
     <<"i","n","n","e","r"," ","j","o","i","n"," ","s",".","t"," ">>}
JoinTexts == Concats(JoinWords, MaxJoinWords)

InitJoins == Request({<<"q",".","s","q","l">>}, JoinTexts)
NextJoins == AnalyzeSql \/ Rerun
SpecJoins == InitJoins /\ [][NextJoins]_vars

(***************************************************************************)
(* SQL texts with up to MaxCommentLines single-line comments, between an   *)
(* optional leading and an optional trailing part with block comments      *)
(***************************************************************************)
MaxCommentLines == 11

RECURSIVE CommentLines(_, _)
CommentLines(from, to) ==
    IF from > to THEN <<>>
    ELSE <<"-","-"," ","c">> \o IntText(from) \o <<"\n">> \o CommentLines(from + 1, to)

CommentHeads == {<<>>, <<"/","*"," ","p"," ","*","/","\n">>, <<"s","e","l","e","c","t"," ","1"," ","/","*","p","\n","q","*","/"," ","-","-"," ","z","\n">>}
CommentTails == {<<>>, <<"/","*"," ","r"," ","*","/">>, <<"s","e","l","e","c","t"," ","2"," ","-","-","t">>}
CommentTexts ==
    {h \o CommentLines(1, n) \o t :
        h \in CommentHeads, n \in 0..MaxCommentLines, t \in CommentTails}

InitComments == Request({<<"q",".","s","q","l">>}, CommentTexts)
NextComments == AnalyzeSql \/ Rerun
SpecComments == InitComments /\ [][NextComments]_vars

(***************************************************************************)
(* SQL texts with SELECT inside and outside parentheses                    *)
(***************************************************************************)
MaxSubqueryWords == 3
SubqueryWords ==
    {<<"S","E","L","E","C","T"," ","*"," ","F","R","O","M"," ">>,
     <<"(","S","E","L","E","C","T"," ","i","d"," ","F","R","O","M"," ","t",")">>,
     <<"("," ","\n"," ","s","e","l","e","c","t"," ","1",")"," ">>,
     <<"(","x",")"," ">>,
     <<"(","(","S","e","l","e","c","t"," ","2",")",")"," ">>,
     <<"(","a"," ","s","e","l","e","c","t"," ","3",")"," ">>}
SubqueryTexts == Concats(SubqueryWords, MaxSubqueryWords)

InitSubqueries == Request({<<"q",".","s","q","l">>}, SubqueryTexts)
NextSubqueries == AnalyzeSql \/ Rerun
SpecSubqueries == InitSubqueries /\ [][NextSubqueries]_vars

(***************************************************************************)
(* Well-formed notebooks of up to MaxCells cells of three types            *)
(***************************************************************************)
MaxCells == 3
TypedCells ==
    {CellText(<<"c","o","d","e">>, <<"[","\"","x"," ","="," ","1","\"","]">>),
     CellText(<<"m","a","r","k","d","o","w","n">>, <<"[","\"","#"," ","T","\"","]">>),
     CellText(<<"r","a","w">>, <<"[","\"","r","\"","]">>)}

RECURSIVE CellLists(_)
CellLists(n) ==
    IF n = 0 THEN {<<>>}
    ELSE CellLists(n - 1)
           \cup {(IF l = <<>> THEN <<>> ELSE l \o <<","," ">>) \o c :
                    l \in CellLists(n - 1), c \in TypedCells}
CellsTexts == {NotebookText(<<"[">> \o l \o <<"]">>) : l \in CellLists(MaxCells)}

InitCells == Request({<<"q",".","i","p","y","n","b">>}, CellsTexts)
NextCells == AnalyzeNotebook \/ Rerun
SpecCells == InitCells /\ [][NextCells]_vars

(***************************************************************************)
(* Notebooks of up to MaxHeadingCells cells: markdown cells without a      *)
(* heading, with five and with eleven headings, and a code cell with a     *)
(* line that looks like one                                                *)
(***************************************************************************)
MaxHeadingCells == 2
HeadingCells ==
    {CellText(<<"m","a","r","k","d","o","w","n">>, <<"\"","p","l","a","i","n","\"">>),
     CellText(<<"m","a","r","k","d","o","w","n">>, <<"\"","#"," ","a","\\","n","#"," ","b","\\","n","#","#"," ","c","\\","n","t","e","x","t","\\","n","#","#","#"," ","d","\\","n","#"," ","e","\\","n","#"," ","f","\\","n","#"," ","g","\\","n","#"," ","h","\\","n","#"," ","i","\\","n","#"," ","j","\\","n","#"," ","k","\"">>),
     CellText(<<"m","a","r","k","d","o","w","n">>, <<"[","\"","#"," ","k","1","\\","n","\"",","," ","\"","#"," ","k","2","\\","n","\"",","," ","\"","#"," ","k","3","\\","n","\"",","," ","\"","#"," ","k","4","\\","n","\"",","," ","\"","#"," ","k","5","\"","]">>),
     CellText(<<"c","o","d","e">>, <<"\"","#"," ","C","\"">>)}

RECURSIVE HeadingCellLists(_)
HeadingCellLists(n) ==
    IF n = 0 THEN {<<>>}
    ELSE HeadingCellLists(n - 1)
           \cup {(IF l = <<>> THEN <<>> ELSE l \o <<","," ">>) \o c :
                    l \in HeadingCellLists(n - 1), c \in HeadingCells}
TitleTexts == {NotebookText(<<"[">> \o l \o <<"]">>) : l \in HeadingCellLists(MaxHeadingCells)}

InitTitles == Request({<<"q",".","i","p","y","n","b">>}, TitleTexts)
NextTitles == AnalyzeNotebook \/ Rerun
SpecTitles == InitTitles /\ [][NextTitles]_vars

(***************************************************************************)
(* Script texts of function declarations and arrow-function bindings, with *)
(* plain parameters, empty entries, and a default value that is a call     *)
(***************************************************************************)
MaxParamWords == 2
ParamWords ==
    {<<"f","u","n","c","t","i","o","n"," ","f","(","a",","," ","b",")"," ","{","}","\n">>,
     <<"a","s","y","n","c"," ","f","u","n","c","t","i","o","n"," ","g","("," ","x"," ",",",","," ","y"," ",")"," ","{","}","\n">>,
     <<"f","u","n","c","t","i","o","n"," ","k","(","a"," ","="," ","g","(","1",")",","," ","b",")"," ","{","}","\n">>,
     <<"c","o","n","s","t"," ","h"," ","="," ","(","p",","," ","q",")"," ","=",">"," ","p","\n">>,
     <<"l","e","t"," ","m"," ","="," ","a","s","y","n","c"," ","(",")"," ","=",">"," ","1","\n">>,
     <<"f","u","n","c","t","i","o","n"," ","n","(",")","\n","{","}","\n">>}
ParamTexts == Concats(ParamWords, MaxParamWords)

InitParams == Request({<<"q",".","j","s">>}, ParamTexts)
NextParams == AnalyzeJavascript \/ Rerun
SpecParams == InitParams /\ [][NextParams]_vars

(***************************************************************************)
(* Script texts whose names fit several of the extraction patterns         *)
(***************************************************************************)
MaxOverlapWords == 2
OverlapWords ==
    {<<"f","u","n","c","t","i","o","n"," ","N","a","m","e","(","a",")"," ","{","}","\n">>,
     <<"c","o","n","s","t"," ","N","A","M","E"," ","="," ","1","\n">>,
     <<"c","o","n","s","t"," ","C","o","m","p"," ","="," ","(",")"," ","=",">"," ","1","\n">>,
     <<"f","u","n","c","t","i","o","n"," ","l","o","w","(",")"," ","{","}","\n">>,
     <<"l","e","t"," ","M","A","X"," ","="," ","2","\n">>,
     <<"f","u","n","c","t","i","o","n"," ","A","(",")"," ","{","}","\n">>}
OverlapTexts == Concats(OverlapWords, MaxOverlapWords)

InitOverlap == Request({<<"q",".","j","s","x">>}, OverlapTexts)
NextOverlap == AnalyzeJavascript \/ Rerun
SpecOverlap == InitOverlap /\ [][NextOverlap]_vars

(***************************************************************************)
(* Requests under paths of every kind, each dispatched a second time under *)
(* the path its envelope carries                                           *)
(***************************************************************************)
EchoTexts ==
    {<<"x"," ","="," ","1","\n">>, <<"d","e","f"," ","f","(",":">>, <<"s","e","l","e","c","t"," ","s","u","m","(","x",")"," ","f","r","o","m"," ","a"," ","j","o","i","n"," ","b">>, <<"{","\"","c","e","l","l","s","\"",":"," ","[","]","}">>,
     <<"e","x","p","o","r","t"," ","f","u","n","c","t","i","o","n"," ","u","s","e","T","h","i","n","g","(",")"," ","{","}">>}

InitEcho == Request(Paths, EchoTexts)
NextEcho ==
    \/ AnalyzePython
    \/ AnalyzeSql
    \/ AnalyzeNotebook
    \/ AnalyzeJavascript
    \/ AnalyzeUnsupported
    \/ Redispatch
SpecEcho == InitEcho /\ [][NextEcho]_vars

(***************************************************************************)
(* SQL texts that create a table or a view, in the forms the pattern for   *)
(* created tables accepts                                                  *)
(***************************************************************************)
CreateHeads ==
    {<<"C","R","E","A","T","E"," ">>, <<"c","r","e","a","t","e"," "," ">>, <<"C","R","E","A","T","E"," ","T","E","M","P"," ">>, <<"C","R","E","A","T","E"," ","T","E","M","P","O","R","A","R","Y"," ">>, <<"C","R","E","A","T","E"," ","O","R"," ","R","E","P","L","A","C","E"," ">>}
CreateTails ==
    {<<"T","A","B","L","E"," ","t"," ","(","a"," ","i","n","t",")">>, <<"t","a","b","l","e"," ","i","f"," ","n","o","t"," ","e","x","i","s","t","s"," ","s",".","t"," ","(","a"," ","i","n","t",")">>, <<"V","I","E","W"," ","v"," ","A","S"," ","S","E","L","E","C","T"," ","1">>}
CreateTexts ==
    {before \o h \o t :
        before \in {<<>>, <<"s","e","l","e","c","t"," ","1",";","\n">>}, h \in CreateHeads, t \in CreateTails}

InitCreate == Request({<<"q",".","s","q","l">>}, CreateTexts)
NextCreate == AnalyzeSql \/ Rerun
SpecCreate == InitCreate /\ [][NextCreate]_vars

(***************************************************************************)
(* Requests to the two analysis endpoints of the files API: for a path,    *)
(* and for a document row that is found or not, file-level or not, with or *)
(* without a path and a stored file type                                   *)
(***************************************************************************)
DocumentPaths == {<<"a",".","s","q","l">>, <<"a",".","T","S","X">>, <<"a",".","p","y","c">>, <<"R","E","A","D","M","E">>}
DocumentRows ==
    {[id |-> "document", found |-> f, is_file_level |-> l, file_path |-> p,
      file_type |-> t, file_analysis |-> None] :
        f \in BOOLEAN, l \in BOOLEAN,
        p \in {None, Some(<<>>)} \cup {Some(x) : x \in DocumentPaths},
        t \in {None, Some(""), Some("python")}}

InitFiles ==
    /\ hash_seed \in HashSeeds
    /\ content = <<>>
    /\ pc = "call"
    /\ analyzer = "none"
    /\ envelope = NoDict
    /\ exception = "none"
    /\ previous = NoRun
    /\ calls = <<>>
    /\ containers = <<>>
    /\ \/ document = NoDocument /\ file_path \in Paths \cup {<<>>}
       \/ /\ document \in DocumentRows
          /\ file_path = (IF document.file_path = None THEN <<>> ELSE document.file_path[1])
NextFiles == analyze_file \/ analyze_document_file
SpecFiles == InitFiles /\ [][NextFiles]_vars

(***************************************************************************)
(* Properties of analyze and of the analyzers                              *)
(***************************************************************************)
Ended == pc # "call"

ReturnedBy(name) == pc = "returned" /\ analyzer = name

\* C1: for every (content, path), the second of two invocations of analyze,
\* run in a process of its own, returns an envelope equal field for field
\* to the first's, the order of the lists built from sets included.
C1_SecondRunEqualsFirst ==
    (Ended /\ previous.pc # "none")
        => (envelope = previous.envelope /\ exception = previous.exception)

\* the lower-cased substring after the last '.' of a path, '' without a '.'
LastDot(path) == Greatest({0} \cup {k \in 1..Len(path) : path[k] = "."})

Suffix(path) ==
    IF LastDot(path) = 0 THEN <<>>
    ELSE str_lower(SubSeq(path, LastDot(path) + 1, Len(path)))

AnalyzerFor(ext) ==
    CASE ext = <<"p","y">> -> "analyze_python"
      [] ext = <<"s","q","l">> -> "analyze_sql"
      [] ext = <<"i","p","y","n","b">> -> "analyze_notebook"
      [] ext \in {<<"j","s">>, <<"j","s","x">>, <<"t","s">>, <<"t","s","x">>} -> "analyze_javascript"
      [] OTHER -> "none"

\* C2: analyze invokes the analyzer that the lower-cased substring after the
\* last '.' of file_path names (py, sql, ipynb, js/jsx/ts/tsx); for any other
\* extension, or a path with no '.', it invokes none and returns
\* {file_path, file_type 'unknown', error 'Unsupported file type: <ext>'}.
C2_DispatchByExtension ==
    Ended =>
        /\ analyzer = AnalyzerFor(Suffix(file_path))
        /\ analyzer = "none" =>
              /\ exception = "none"
              /\ envelope = [file_path |-> file_path, file_type |-> "unknown",
                             error |-> <<"U","n","s","u","p","p","o","r","t","e","d"," ","f","i","l","e"," ","t","y","p","e",":"," ">> \o Suffix(file_path)]

\* an upper-case extension has reached its analyzer, and a path whose last
\* '.' is followed by nothing has been answered as unsupported
C2_Witness ==
    \/ pc = "returned" /\ file_path = <<"a",".","b",".","S","Q","L">> /\ analyzer = "analyze_sql"
          /\ envelope.file_type = "sql"
    \/ pc = "returned" /\ file_path = <<"a",".","p","y",".">> /\ analyzer = "none"
          /\ envelope.error = <<"U","n","s","u","p","p","o","r","t","e","d"," ","f","i","l","e"," ","t","y","p","e",":"," ">>

\* json.loads(text) with no limit on the nesting
Decoded(text) == JsonDecode(text, Len(text) + 1)

IsListOfStrings(v) == v.k = "list" /\ \A k \in 1..Len(v.v) : v.v[k].k = "str"

HasSourceShape(cell) ==
    \/ DictGet(cell, <<"s","o","u","r","c","e">>, JList(<<>>)).k = "str"
    \/ IsListOfStrings(DictGet(cell, <<"s","o","u","r","c","e">>, JList(<<>>)))

\* the cell-array shape: an object whose 'cells' is a list of objects, each
\* with a 'source' that is a string or a list of strings
HasCellShape(doc) ==
    /\ doc.k = "dict"
    /\ DictGet(doc, <<"c","e","l","l","s">>, JList(<<>>)).k = "list"
    /\ \A k \in 1..Len(DictGet(doc, <<"c","e","l","l","s">>, JList(<<>>)).v) :
          /\ DictGet(doc, <<"c","e","l","l","s">>, JList(<<>>)).v[k].k = "dict"
          /\ HasSourceShape(DictGet(doc, <<"c","e","l","l","s">>, JList(<<>>)).v[k])

\* C3: for notebook text that is valid JSON but lacks the cell-array shape,
\* analyze_notebook raises nothing and returns an error envelope.
C3_ShapelessDocumentReturnsError ==
    (Ended /\ analyzer = "analyze_notebook" /\ Decoded(content).st = "ok"
       /\ ~HasCellShape(Decoded(content).val))
        => (exception = "none" /\ "error" \in DOMAIN envelope)

\* C4: for every Python text that fails to parse, analyze_python raises
\* nothing and returns {file_path, file_type 'python', error} with a
\* non-empty message and no analysis field.
C4_UnparseableReturnsError ==
    (Ended /\ analyzer = "analyze_python" /\ ast_parse(content).st # "ok")
        => /\ exception = "none"
           /\ DOMAIN envelope = {"file_path", "file_type", "error"}
           /\ envelope.file_type = "python"
           /\ envelope.error # <<>>

\* C5: for every notebook text that is not valid JSON, analyze_notebook
\* raises nothing and returns {file_path, file_type 'ipynb', error} with the
\* JSON parser's message and no count or list field.
C5_InvalidJsonReturnsError ==
    (Ended /\ analyzer = "analyze_notebook" /\ Decoded(content).st = "JSONDecodeError")
        => /\ exception = "none"
           /\ envelope = [file_path |-> file_path, file_type |-> "ipynb",
                          error |-> <<"I","n","v","a","l","i","d"," ","J","S","O","N",":"," ">>
                                      \o JsonErrorText(content, Decoded(content))]

SqlFields ==
    {"file_path", "file_type", "tables_referenced", "tables_created", "tables_modified",
     "ctes", "joins", "aggregations", "subqueries", "statement_types", "comments"}

ScriptFields ==
    {"file_path", "file_type", "imports", "exports", "functions", "classes", "constants",
     "jsx_components", "hooks_used"}

\* what the SQL patterns look for, in lower case, and what the script
\* patterns look for
SqlMarks ==
    {<<"s","e","l","e","c","t">>, <<"i","n","s","e","r","t">>, <<"u","p","d","a","t","e">>, <<"d","e","l","e","t","e">>, <<"c","r","e","a","t","e">>, <<"a","l","t","e","r">>, <<"d","r","o","p">>, <<"f","r","o","m">>,
     <<"j","o","i","n">>, <<"w","i","t","h">>, <<"s","u","m">>, <<"c","o","u","n","t">>, <<"a","v","g">>, <<"m","i","n">>, <<"m","a","x">>, <<"g","r","o","u","p","_","c","o","n","c","a","t">>,
     <<"s","t","r","i","n","g","_","a","g","g">>, <<"-","-">>, <<"/","*">>}

ScriptMarks ==
    {<<"i","m","p","o","r","t">>, <<"r","e","q","u","i","r","e">>, <<"e","x","p","o","r","t">>, <<"f","u","n","c","t","i","o","n">>, <<"c","l","a","s","s">>, <<"c","o","n","s","t">>, <<"l","e","t">>, <<"v","a","r">>,
     <<"u","s","e">>}

HasNone(text, marks) == \A m \in marks : ~Contains(text, m)

\* C6: for every input text, analyze_sql and analyze_javascript return a
\* success envelope (every analysis field, no 'error' key) and never raise;
\* a text that matches no pattern gives empty lists and no subquery.
C6_HeuristicAnalyzersNeverFail ==
    /\ Ended => exception = "none" /\ "error" \notin DOMAIN envelope
    /\ ReturnedBy("analyze_sql") =>
          /\ DOMAIN envelope = SqlFields
          /\ HasNone(str_lower(content), SqlMarks) =>
                /\ \A f \in SqlFields \ {"file_path", "file_type", "subqueries"} :
                      envelope[f] = <<>>
                /\ envelope.subqueries = 0
    /\ ReturnedBy("analyze_javascript") =>
          /\ DOMAIN envelope = ScriptFields
          /\ HasNone(content, ScriptMarks) =>
                \A f \in ScriptFields \ {"file_path", "file_type"} : envelope[f] = <<>>

\* a script has been given to analyze_sql, which found nothing in it
C6_Witness ==
    /\ ReturnedBy("analyze_sql")
    /\ content = <<"e","x","p","o","r","t"," ","c","o","n","s","t"," ","u","s","e","T","h","i","n","g"," ","="," ","(",")"," ","=",">"," ","{","}">>
    /\ envelope.tables_referenced = <<>>
    /\ envelope.statement_types = <<>>
    /\ envelope.subqueries = 0

\* name is written at i as a call: not inside a longer word, and followed,
\* after optional white space, by '('
CalledAt(text, name, i) ==
    /\ SubSeq(text, i, i + Len(name) - 1) = name
    /\ i = 1 \/ text[i - 1] \notin WordSet
    /\ \E j \in (i + Len(name))..Len(text) :
          /\ text[j] = "("
          /\ \A k \in (i + Len(name))..(j - 1) : text[k] \in SpaceSet

Called(text, name) == \E i \in 1..(Len(text) - Len(name) + 1) : CalledAt(text, name, i)

ExportsUseThing == Contains(content, <<"e","x","p","o","r","t"," ","c","o","n","s","t"," ","u","s","e","T","h","i","n","g"," ","="," ","(",")"," ","=",">"," ","{","}">>)

\* C7: a hook-style name bound by an exported arrow function, `export const
\* useThing = () => {}`, is reported in exports; it is reported in
\* hooks_used exactly when the text also calls it, the name being followed
\* by optional white space and '('.
C7_ExportedHookListedWhenCalled ==
    (ReturnedBy("analyze_javascript") /\ ExportsUseThing)
        => /\ <<"u","s","e","T","h","i","n","g">> \in Range(envelope.exports)
           /\ <<"u","s","e","T","h","i","n","g">> \in Range(envelope.hooks_used) <=> Called(content, <<"u","s","e","T","h","i","n","g">>)

\* C7 as stated: the name is reported both in exports and in hooks_used.
C7_ExportedHookListedTwice ==
    (ReturnedBy("analyze_javascript") /\ ExportsUseThing)
        => /\ <<"u","s","e","T","h","i","n","g">> \in Range(envelope.exports)
           /\ <<"u","s","e","T","h","i","n","g">> \in Range(envelope.hooks_used)

\* the exported hook alone is listed in exports and not in hooks_used
C7_Witness ==
    /\ ReturnedBy("analyze_javascript")
    /\ content = <<"e","x","p","o","r","t"," ","c","o","n","s","t"," ","u","s","e","T","h","i","n","g"," ","="," ","(",")"," ","=",">"," ","{","}","\n">>
    /\ envelope.exports = <<<<"u","s","e","T","h","i","n","g">>>>
    /\ envelope.hooks_used = <<>>

IsIdentifier(e) == e # <<>> /\ \A k \in 1..Len(e) : e[k] \in WordSet

\* C8: a `module.exports =` assignment adds no entry to exports: every entry
\* of exports is an identifier, and the extraction does not fail.
C8_ExportsAreIdentifiers ==
    (Ended /\ analyzer = "analyze_javascript")
        => /\ exception = "none"
           /\ \A k \in 1..Len(envelope.exports) : IsIdentifier(envelope.exports[k])

\* C9: every entry of joins is an upper-case, trimmed join-kind token,
\* whatever the letter case of the join keywords in the text.
C9_JoinsUpperCaseTrimmed ==
    ReturnedBy("analyze_sql")
        => \A k \in 1..Len(envelope.joins) :
              /\ envelope.joins[k] = str_upper(envelope.joins[k])
              /\ envelope.joins[k] = str_strip(envelope.joins[k])

AggregationNames ==
    {<<"S","U","M">>, <<"C","O","U","N","T">>, <<"A","V","G">>, <<"M","I","N">>, <<"M","A","X">>, <<"G","R","O","U","P","_","C","O","N","C","A","T">>, <<"S","T","R","I","N","G","_","A","G","G">>}

\* C10: each entry of aggregations is one of SUM, COUNT, AVG, MIN, MAX,
\* GROUP_CONCAT, STRING_AGG, and each function is listed at most once,
\* however many times and in whatever letter case the text calls it.
C10_AggregationsNamedOnce ==
    ReturnedBy("analyze_sql")
        => /\ \A k \in 1..Len(envelope.aggregations) :
                 envelope.aggregations[k] \in AggregationNames
           /\ \A j, k \in 1..Len(envelope.aggregations) :
                 str_upper(envelope.aggregations[j]) = str_upper(envelope.aggregations[k])
                     => j = k

(***************************************************************************)
(* Function definitions, read off the text line by line.  The texts        *)
(* analyzed write one definition per line, and no string or comment of     *)
(* theirs contains a def.                                                  *)
(***************************************************************************)
SourceLines(text) == str_split(text, "\n")

DefHeader(line) ==
    IF StartsWith(str_strip(line), <<"a","s","y","n","c"," ">>)
    THEN LStrip(SubSeq(str_strip(line), 7, Len(str_strip(line))))
    ELSE str_strip(line)

IsDefLine(line) == StartsWith(DefHeader(line), <<"d","e","f"," ">>)

IsAsyncDefLine(line) == IsDefLine(line) /\ StartsWith(str_strip(line), <<"a","s","y","n","c"," ">>)

First(c, s) == Least({k \in 1..Len(s) : s[k] = c} \cup {Len(s) + 1})

\* the name a def line defines
DefName(line) == str_strip(SubSeq(DefHeader(line), 5, First("(", DefHeader(line)) - 1))

\* the text between the parentheses of a def line
ParamText(line) ==
    SubSeq(DefHeader(line), First("(", DefHeader(line)) + 1, First(")", DefHeader(line)) - 1)

RECURSIVE DropStars(_)
DropStars(p) == IF p # <<>> /\ Head(p) = "*" THEN DropStars(Tail(p)) ELSE p

\* the name of a parameter written as name, name=default, *name or **name
ParamName(p) ==
    str_strip(SubSeq(DropStars(str_strip(p)), 1, First("=", DropStars(str_strip(p))) - 1))

\* the names of all the parameters of a def line, in the order written; the
\* markers / and * name no parameter
DeclaredParams(line) ==
    DropEmpty([k \in 1..Len(str_split(ParamText(line), ",")) |->
                  IF str_strip(str_split(ParamText(line), ",")[k]) = <<"/">>
                  THEN <<>>
                  ELSE ParamName(str_split(ParamText(line), ",")[k])])

Analyzed(name) == ReturnedBy(name) /\ "error" \notin DOMAIN envelope

\* C11: for every function definition in parseable Python text, args is the
\* list of all the parameter names of the definition, in declaration order.
C11_ArgsAreAllParameters ==
    Analyzed("analyze_python")
        => \A k \in 1..Len(envelope.functions) :
              envelope.functions[k].args =
                  DeclaredParams(SourceLines(content)[envelope.functions[k].line_number])

\* the joined sources of the cells of the given type of a notebook text
\* that has the cell-array shape
CellSources(text, type) ==
    Sources(CellsOf(DictGet(Decoded(text).val, <<"c","e","l","l","s">>, JList(<<>>)).v, type))

\* the lines of the given texts, in order
RECURSIVE LinesOf(_)
LinesOf(sources) ==
    IF sources = <<>> THEN <<>>
    ELSE str_split(Head(sources), "\n") \o LinesOf(Tail(sources))

\* a level-1 heading: a single '#', white space, and the heading's text
IsLevelOneHeading(line) ==
    /\ Len(line) >= 3
    /\ line[1] = "#"
    /\ line[2] \in SpaceSet
    /\ LStrip(Tail(line)) # <<>>

LevelOneHeadings(text) == SelectSeq(LinesOf(CellSources(text, <<"m","a","r","k","d","o","w","n">>)), IsLevelOneHeading)

\* C12: the title of the notebook envelope, when present, is the text of the
\* first level-1 (single '#') markdown heading of the notebook; a heading
\* of a deeper level is never the title.
C12_TitleIsFirstLevelOneHeading ==
    (Analyzed("analyze_notebook") /\ envelope.title # None)
        => /\ LevelOneHeadings(content) # <<>>
           /\ envelope.title = Some(LStrip(Tail(Head(LevelOneHeadings(content)))))

NoDuplicates(xs) == \A j, k \in 1..Len(xs) : xs[j] = xs[k] => j = k

\* the distinct import lines of the code cells of a notebook text, in
\* document order
DistinctImportLines(text) == Dedup(ImportLines(LinesOf(CellSources(text, <<"c","o","d","e">>))), {})

\* C13: the imports of the notebook envelope has at most 20 entries and no
\* duplicates, and when the code cells contain more than 20 distinct import
\* lines the entries kept are the first 20 distinct lines in document order.
C13_ImportsAreFirstTwenty ==
    Analyzed("analyze_notebook")
        => /\ Len(envelope.imports) <= ImportsCap
           /\ NoDuplicates(envelope.imports)
           /\ Len(DistinctImportLines(content)) > ImportsCap
                 => Range(envelope.imports)
                       = Range(Take(DistinctImportLines(content), ImportsCap))

\* C14: the language tag of the envelope returned for a .ts or .tsx path is
\* TypeScript and for a .js or .jsx path JavaScript, so that the tag agrees
\* with the file type get_file_type derives from the same path.
C14_LanguageTagFollowsExtension ==
    ReturnedBy("analyze_javascript")
        => /\ envelope.file_type =
                 (IF Suffix(file_path) \in {<<"t","s">>, <<"t","s","x">>} THEN "typescript" ELSE "javascript")
           /\ Some(envelope.file_type) = get_file_type(file_path)

\* C15: concurrent invocations of analyze on the singleton, interleaved in
\* any way, each end as the same call run alone does, with the same envelope
\* or the same exception, and none of them leaves anything on the singleton.
C15_ConcurrentCallsEndAsAlone ==
    /\ containers[Singleton] = NoFields
    /\ \A t \in Callers :
          calls[t].pc \in {"returned", "raised"}
              => /\ calls[t].envelope = calls[t].alone.ret
                 /\ calls[t].exception = calls[t].alone.exc

\* two callers have both returned, one with an analysis and one with the
\* envelope of an unsupported file, each having filled in fields while the
\* other was in the middle of its analysis
C15_Witness ==
    /\ calls[1].pc = "returned"
    /\ calls[2].pc = "returned"
    /\ calls[1].overlapped
    /\ calls[2].overlapped
    /\ calls[1].envelope.file_type = "sql"
    /\ calls[1].envelope.aggregations = <<<<"s","u","m">>>>
    /\ calls[2].envelope.file_type = "unknown"

DefLineNumbers(text) ==
    {i \in 1..Len(SourceLines(text)) : IsDefLine(SourceLines(text)[i])}

\* a line that is a whole docstring, written between triple double quotes
IsDocLine(line) ==
    /\ Len(str_strip(line)) >= 6
    /\ SubSeq(str_strip(line), 1, 3) = <<"\"","\"","\"">>
    /\ SubSeq(str_strip(line), Len(str_strip(line)) - 2, Len(str_strip(line))) = <<"\"","\"","\"">>

\* the docstring of the definition on line i: the line after a header that
\* ends the line, when that line is a docstring
DocstringAt(lines, i) ==
    IF /\ RStrip(lines[i])[Len(RStrip(lines[i]))] = ":"
       /\ i < Len(lines)
       /\ IsDocLine(lines[i + 1])
    THEN Some(str_strip(SubSeq(str_strip(lines[i + 1]), 4, Len(str_strip(lines[i + 1])) - 3)))
    ELSE None

\* the entry of functions is the signature of the definition on line i
IsSignatureOf(entry, lines, i) ==
    /\ entry.line_number = i
    /\ entry.name = DefName(lines[i])
    /\ entry.docstring = DocstringAt(lines, i)
    /\ entry.is_async = IsAsyncDefLine(lines[i])

IsDecoratorLine(line) == StartsWith(str_strip(line), <<"@">>)

\* the first of the decorator lines written directly above line i
FirstDecoratorLine(lines, i) ==
    Greatest({j \in 0..(i - 1) : j = 0 \/ ~IsDecoratorLine(lines[j])}) + 1

\* the text of the decorator on a line, up to the first call
DecoratorPath(line) ==
    SubSeq(Tail(str_strip(line)), 1, First("(", Tail(str_strip(line))) - 1)

IsDottedPath(s) == s # <<>> /\ \A k \in 1..Len(s) : s[k] \in WordSet \cup {"."}

IsIndented(line) == line # <<>> /\ Head(line) \in SpaceSet

\* the header over line i: the nearest line above it that is not indented
HeaderOf(lines, i) == lines[Greatest({j \in 1..(i - 1) : ~IsIndented(lines[j])})]

\* line i is a statement of the module's scope: not inside a def or a class
InModuleScope(lines, i) ==
    ~IsIndented(lines[i]) \/ StartsWith(HeaderOf(lines, i), <<"i","f"," ">>)

\* a simple assignment: targets = value, with no annotation
IsSimpleAssignment(line) ==
    /\ "=" \in Range(line)
    /\ ":" \notin Range(line)

\* the names a simple assignment binds: those of all its targets
RECURSIVE NamesOfTargets(_)
NamesOfTargets(targets) ==
    IF targets = <<>> THEN {}
    ELSE Range(MapStrip(str_split(Head(targets), ","))) \cup NamesOfTargets(Tail(targets))

BoundBy(line) ==
    NamesOfTargets(SubSeq(str_split(line, "="), 1, Len(str_split(line, "=")) - 1))

\* the names bound by the simple assignments of the module's scope
ModuleNames(text) ==
    UNION {BoundBy(SourceLines(text)[i]) :
              i \in {j \in 1..Len(SourceLines(text)) :
                        /\ IsSimpleAssignment(SourceLines(text)[j])
                        /\ InModuleScope(SourceLines(text), j)}}

EntirelyUpperCase(name) ==
    /\ \E k \in 1..Len(name) : name[k] \in UpperSet
    /\ \A k \in 1..Len(name) : name[k] \in UpperSet \cup DigitSet \cup {"_"}

\* C18: for parseable Python text, every name bound by a simple assignment
\* of the module's scope is in exactly one of constants and
\* global_variables, in constants when it is entirely upper-case; an
\* assignment inside a function or a class adds to neither list.
C18_ModuleNamesInOneList ==
    Analyzed("analyze_python")
        => /\ \A name \in ModuleNames(content) :
                 /\ (name \in Range(envelope.constants))
                       # (name \in Range(envelope.global_variables))
                 /\ (name \in Range(envelope.constants)) <=> EntirelyUpperCase(name)
           /\ Range(envelope.constants) \cup Range(envelope.global_variables)
                 \subseteq ModuleNames(content)

\* C19: for parseable Python text, entry_point is true exactly when the
\* content contains, as a literal substring, `if __name__ == "__main__"` or
\* its single-quoted form, with or without a colon after it, wherever that
\* substring occurs (code, comment or string).
C19_EntryPointIsGuardSubstring ==
    Analyzed("analyze_python")
        => envelope.entry_point
              = (\/ \E i \in 1..(Len(content) - 24) :
                       SubSeq(content, i, i + 24) = <<"i","f"," ","_","_","n","a","m","e","_","_"," ","=","="," ","\"","_","_","m","a","i","n","_","_","\"">>
                 \/ \E i \in 1..(Len(content) - 24) :
                       SubSeq(content, i, i + 24) = <<"i","f"," ","_","_","n","a","m","e","_","_"," ","=","="," ","'","_","_","m","a","i","n","_","_","'">>)

\* C19 as stated: entry_point is true exactly when the content contains the
\* guard clause with its colon, `if __name__ == "__main__":` or
\* `if __name__ == '__main__':`.
C19_EntryPointIsGuardWithColon ==
    Analyzed("analyze_python")
        => envelope.entry_point
              = (\/ Contains(content, <<"i","f"," ","_","_","n","a","m","e","_","_"," ","=","="," ","\"","_","_","m","a","i","n","_","_","\"",":">>)
                 \/ Contains(content, <<"i","f"," ","_","_","n","a","m","e","_","_"," ","=","="," ","'","_","_","m","a","i","n","_","_","'",":">>))

\* a guard with white space before its colon has been found
C19_Witness ==
    /\ Analyzed("analyze_python")
    /\ content = <<"i","f"," ","_","_","n","a","m","e","_","_"," ","=","="," ","\"","_","_","m","a","i","n","_","_","\""," ",":","\n"," "," ","p","a","s","s","\n">>
    /\ envelope.entry_point

\* the keyword kw, in any letter case, stands at position i of s as a whole
\* word
KeywordAt(s, i, kw) ==
    /\ i + Len(kw) - 1 <= Len(s)
    /\ str_upper(SubSeq(s, i, i + Len(kw) - 1)) = kw
    /\ ~IsWordAt(s, i - 1)
    /\ ~IsWordAt(s, i + Len(kw))

\* the first position from i on whose character is outside the set, or the
\* position after the text
FirstOutside(s, i, set) ==
    CHOOSE j \in i..(Len(s) + 1) :
        /\ j = Len(s) + 1 \/ s[j] \notin set
        /\ \A k \in i..(j - 1) : s[k] \in set

\* the identifier that follows white space starting at position i, if any
IdentifierAfter(s, i) ==
    With(FirstOutside(s, i, SpaceSet), LAMBDA j :
        IF j > i /\ j <= Len(s) /\ s[j] \in LowerSet \cup UpperSet \cup {"_"}
        THEN Some(SubSeq(s, j, FirstOutside(s, j, WordSet \cup {"."}) - 1))
        ELSE None)

\* the identifiers that follow a FROM or a JOIN keyword
TablesAfterFromOrJoin(s) ==
    {t \in {IdentifierAfter(s, i + 4) :
                i \in {k \in 1..Len(s) : \/ KeywordAt(s, k, <<"F","R","O","M">>)
                                         \/ KeywordAt(s, k, <<"J","O","I","N">>)}} :
        t # None}

JoinKeywords(s) == {i \in 1..Len(s) : KeywordAt(s, i, <<"J","O","I","N">>)}

\* C20: tables_referenced has no duplicates and holds exactly the
\* identifiers that follow a FROM or JOIN keyword; joins has one entry per
\* occurrence of the JOIN keyword.
C20_TablesAndJoinsFollowKeywords ==
    ReturnedBy("analyze_sql")
        => /\ NoDuplicates(envelope.tables_referenced)
           /\ {Some(t) : t \in Range(envelope.tables_referenced)}
                 = TablesAfterFromOrJoin(content)
           /\ Len(envelope.joins) = Cardinality(JoinKeywords(content))

(***************************************************************************)
(* Properties of the SQL, notebook and script envelopes, and of the        *)
(* extension gate of the files API                                         *)
(***************************************************************************)
\* the first position from `from` on at which sub stands in s, or 0
FirstAt(s, sub, from) ==
    Least({i \in from..(Len(s) - Len(sub) + 1) : SubSeq(s, i, i + Len(sub) - 1) = sub}
          \cup {Len(s) + 1}) % (Len(s) + 1)

\* the text after the first "--" of each line that has one, without leading
\* white space
RECURSIVE DashComments(_)
DashComments(lines) ==
    IF lines = <<>> THEN <<>>
    ELSE (IF Contains(Head(lines), <<"-","-">>)
          THEN <<LStrip(SubSeq(Head(lines), FirstAt(Head(lines), <<"-","-">>, 1) + 2,
                               Len(Head(lines))))>>
          ELSE <<>>)
         \o DashComments(Tail(lines))

\* the trimmed text between each "/*" and the next "*/"
RECURSIVE BlockComments(_, _)
BlockComments(s, from) ==
    With(FirstAt(s, <<"/","*">>, from), LAMBDA i :
        IF i = 0 \/ FirstAt(s, <<"*","/">>, i + 3) = 0 THEN <<>>
        ELSE <<str_strip(SubSeq(s, i + 2, FirstAt(s, <<"*","/">>, i + 3) - 1))>>
             \o BlockComments(s, FirstAt(s, <<"*","/">>, i + 3) + 2))

\* C21: comments has at most 10 entries: the first 10 of the single-line
\* comments in source order followed by the block comments in source order.
C21_CommentsAreFirstTen ==
    ReturnedBy("analyze_sql")
        => /\ Len(envelope.comments) <= 10
           /\ envelope.comments
                 = Take(DashComments(SourceLines(content))
                        \o BlockComments(content, 1), 10)

\* ten or more single-line comments have left no room for the block comments
\* of the text
C21_Witness ==
    /\ ReturnedBy("analyze_sql")
    /\ Len(DashComments(SourceLines(content))) > 10
    /\ BlockComments(content, 1) # <<>>
    /\ Len(envelope.comments) = 10
    /\ \A k \in 1..10 : envelope.comments[k] \notin Range(BlockComments(content, 1))

\* the positions of an opening parenthesis that has SELECT, in any letter
\* case, after it with nothing but white space between
ParenthesisedSelects(s) ==
    {i \in 1..Len(s) :
        /\ s[i] = "("
        /\ With(FirstOutside(s, i + 1, SpaceSet), LAMBDA j :
              /\ j + 5 <= Len(s)
              /\ str_upper(SubSeq(s, j, j + 5)) = <<"S","E","L","E","C","T">>)}

\* C22: subqueries is the number of occurrences of '(' followed by optional
\* white space and SELECT in any letter case; a SELECT without such a
\* parenthesis before it is not counted.
C22_SubqueriesCountParenthesisedSelects ==
    ReturnedBy("analyze_sql")
        => envelope.subqueries = Cardinality(ParenthesisedSelects(content))

\* the outer SELECT of a text with one subquery has not been counted
C22_Witness ==
    /\ ReturnedBy("analyze_sql")
    /\ content = <<"S","E","L","E","C","T"," ","*"," ","F","R","O","M"," ","(","S","E","L","E","C","T"," ","i","d"," ","F","R","O","M"," ","t",")">>
    /\ envelope.subqueries = 1

\* the cells array of a notebook text
CellsArray(text) == DictGet(Decoded(text).val, <<"c","e","l","l","s">>, JList(<<>>)).v

\* the number of cells of the array whose cell_type is the given one
CellsTyped(cells, type) ==
    Cardinality({k \in 1..Len(cells) : DictGet(cells[k], <<"c","e","l","l","_","t","y","p","e">>, JNull) = JStr(type)})

\* C23: for a well-formed notebook, total_cells is the length of the cells
\* array, code_cells and markdown_cells count the cells of type 'code' and
\* 'markdown'; code_cells + markdown_cells <= total_cells, with equality
\* exactly when no cell has another type.
C23_CellCounts ==
    Analyzed("analyze_notebook")
        => /\ envelope.total_cells = Len(CellsArray(content))
           /\ envelope.code_cells = CellsTyped(CellsArray(content), <<"c","o","d","e">>)
           /\ envelope.markdown_cells = CellsTyped(CellsArray(content), <<"m","a","r","k","d","o","w","n">>)
           /\ envelope.code_cells + envelope.markdown_cells <= envelope.total_cells
           /\ (envelope.code_cells + envelope.markdown_cells = envelope.total_cells)
                 <=> \A k \in 1..Len(CellsArray(content)) :
                        DictGet(CellsArray(content)[k], <<"c","e","l","l","_","t","y","p","e">>, JNull)
                            \in {JStr(<<"c","o","d","e">>), JStr(<<"m","a","r","k","d","o","w","n">>)}

\* a notebook of a code cell, a raw cell and a markdown cell has been counted
C23_Witness ==
    /\ Analyzed("analyze_notebook")
    /\ envelope.total_cells = 3
    /\ envelope.code_cells = 1
    /\ envelope.markdown_cells = 1
    /\ CellsTyped(CellsArray(content), <<"r","a","w">>) = 1

\* the joined sources of the markdown cells of a cells array, in order
RECURSIVE MarkdownSources(_)
MarkdownSources(cells) ==
    IF cells = <<>> THEN <<>>
    ELSE (IF DictGet(Head(cells), <<"c","e","l","l","_","t","y","p","e">>, JNull) = JStr(<<"m","a","r","k","d","o","w","n">>)
          THEN <<JoinSource(Head(cells))>> ELSE <<>>)
         \o MarkdownSources(Tail(cells))

\* a heading line: one or more '#', white space, and a text
IsHeadingLine(line) ==
    With(FirstOutside(line, 1, {"#"}), LAMBDA j :
        /\ j > 1
        /\ j <= Len(line)
        /\ line[j] \in SpaceSet
        /\ LStrip(SubSeq(line, j, Len(line))) # <<>>)

HeadingText(line) == LStrip(SubSeq(line, FirstOutside(line, 1, {"#"}), Len(line)))

RECURSIVE HeadingsOfLines(_)
HeadingsOfLines(lines) ==
    IF lines = <<>> THEN <<>>
    ELSE (IF IsHeadingLine(Head(lines)) THEN <<HeadingText(Head(lines))>> ELSE <<>>)
         \o HeadingsOfLines(Tail(lines))

\* the headings of all markdown cells of a notebook text, in document order
AllHeadings(text) == HeadingsOfLines(LinesOf(MarkdownSources(CellsArray(text))))

StandsAt(s, sub, i) == i >= 1 /\ i + Len(sub) - 1 <= Len(s) /\ SubSeq(s, i, i + Len(sub) - 1) = sub

\* the position of the parenthesis that closes the one at position open, or 0
ClosingParenthesis(s, open) ==
    Least({j \in (open + 1)..Len(s) :
              /\ s[j] = ")"
              /\ Cardinality({k \in open..j : s[k] = "("})
                    = Cardinality({k \in open..j : s[k] = ")"})}
          \cup {Len(s) + 1}) % (Len(s) + 1)

\* where the name that follows the keyword at position i starts and ends, and
\* where the text goes on after the white space behind the name
NameStart(s, i, keyword) == FirstOutside(s, i + Len(keyword), SpaceSet)
NameEnd(s, i, keyword) == FirstOutside(s, NameStart(s, i, keyword), WordSet)
AfterName(s, i, keyword) == FirstOutside(s, NameEnd(s, i, keyword), SpaceSet)

\* a declaration `function <name>(<params>)` starts at position i
IsDeclarationAt(s, i) ==
    /\ StandsAt(s, <<"f","u","n","c","t","i","o","n">>, i)
    /\ NameStart(s, i, <<"f","u","n","c","t","i","o","n">>) > i + 8
    /\ NameEnd(s, i, <<"f","u","n","c","t","i","o","n">>) > NameStart(s, i, <<"f","u","n","c","t","i","o","n">>)
    /\ StandsAt(s, <<"(">>, AfterName(s, i, <<"f","u","n","c","t","i","o","n">>))
    /\ ClosingParenthesis(s, AfterName(s, i, <<"f","u","n","c","t","i","o","n">>)) # 0

DeclaredName(s, i, keyword) ==
    SubSeq(s, NameStart(s, i, keyword), NameEnd(s, i, keyword) - 1)

\* the text between the parentheses of the declaration at position i
DeclaredParamText(s, i) ==
    SubSeq(s, AfterName(s, i, <<"f","u","n","c","t","i","o","n">>) + 1,
           ClosingParenthesis(s, AfterName(s, i, <<"f","u","n","c","t","i","o","n">>)) - 1)

LineNumberAt(s, i) == 1 + Cardinality({k \in 1..(i - 1) : s[k] = "\n"})

\* where the match of a declaration starts: at its async keyword, if any
DeclarationStart(s, i) ==
    With(Greatest({j \in 1..(i - 1) : s[j] \notin SpaceSet} \cup {0}), LAMBDA e :
        IF e < i - 1 /\ StandsAt(s, <<"a","s","y","n","c">>, e - 4) THEN e - 4 ELSE i)

\* the position of the parenthesis that opens the parameters of the arrow
\* function bound by the keyword at position i, or 0
ArrowOpen(s, i, keyword) ==
    IF /\ StandsAt(s, keyword, i)
       /\ NameStart(s, i, keyword) > i + Len(keyword)
       /\ NameEnd(s, i, keyword) > NameStart(s, i, keyword)
       /\ StandsAt(s, <<"=">>, AfterName(s, i, keyword))
    THEN With(FirstOutside(s, AfterName(s, i, keyword) + 1, SpaceSet), LAMBDA v :
            With(IF StandsAt(s, <<"a","s","y","n","c">>, v) /\ FirstOutside(s, v + 5, SpaceSet) > v + 5
                 THEN FirstOutside(s, v + 5, SpaceSet) ELSE v, LAMBDA p :
                IF StandsAt(s, <<"(">>, p) THEN p ELSE 0))
    ELSE 0

\* an arrow-function binding `<keyword> <name> = [async] (...) =>` starts at
\* position i
IsArrowBindingAt(s, i, keyword) ==
    /\ ArrowOpen(s, i, keyword) # 0
    /\ ClosingParenthesis(s, ArrowOpen(s, i, keyword)) # 0
    /\ StandsAt(s, <<"=",">">>,
                FirstOutside(s, ClosingParenthesis(s, ArrowOpen(s, i, keyword)) + 1, SpaceSet))

BindingKeywords == {<<"c","o","n","s","t">>, <<"l","e","t">>, <<"v","a","r">>}

\* C25: each declaration `function <name>(<params>)` is recorded with args
\* equal to <params> split on commas, trimmed, empty entries dropped, and
\* with line_number 1 plus the number of newlines before the start of the
\* match; each arrow-function binding is recorded with an empty args list.
C25_DeclarationsAndArrowBindingsRecorded ==
    ReturnedBy("analyze_javascript")
        => /\ \A i \in 1..Len(content) :
                 IsDeclarationAt(content, i)
                    => \E k \in 1..Len(envelope.functions) :
                          /\ envelope.functions[k].name = DeclaredName(content, i, <<"f","u","n","c","t","i","o","n">>)
                          /\ envelope.functions[k].args
                                = DropEmpty(MapStrip(str_split(DeclaredParamText(content, i), ",")))
                          /\ envelope.functions[k].line_number
                                = LineNumberAt(content, DeclarationStart(content, i))
           /\ \A i \in 1..Len(content) : \A keyword \in BindingKeywords :
                 IsArrowBindingAt(content, i, keyword)
                    => \E k \in 1..Len(envelope.functions) :
                          /\ envelope.functions[k].name = DeclaredName(content, i, keyword)
                          /\ envelope.functions[k].args = <<>>
                          /\ envelope.functions[k].line_number = LineNumberAt(content, i)

\* a capitalised name of two characters or more
IsCapitalised(name) == Len(name) >= 2 /\ name[1] \in UpperSet

\* a name of upper-case letters, digits and underscores that starts with a
\* letter and has two characters or more
IsUpperCaseName(name) ==
    /\ IsCapitalised(name)
    /\ \A k \in 1..Len(name) : name[k] \in UpperSet \cup DigitSet \cup {"_"}

\* `const <name> =` starts at position i
IsConstBindingAt(s, i) ==
    /\ StandsAt(s, <<"c","o","n","s","t">>, i)
    /\ NameStart(s, i, <<"c","o","n","s","t">>) > i + 5
    /\ NameEnd(s, i, <<"c","o","n","s","t">>) > NameStart(s, i, <<"c","o","n","s","t">>)
    /\ StandsAt(s, <<"=">>, AfterName(s, i, <<"c","o","n","s","t">>))

FunctionNames == {envelope.functions[k].name : k \in 1..Len(envelope.functions)}

\* C26: a name that fits several extraction patterns is in every matching
\* field: a capitalized `function Name(` is in functions and in
\* jsx_components, an all-upper-case `const NAME =` is in constants and in
\* jsx_components.
C26_NamesInEveryMatchingField ==
    ReturnedBy("analyze_javascript")
        => /\ \A i \in 1..Len(content) :
                 (/\ IsDeclarationAt(content, i)
                  /\ IsCapitalised(DeclaredName(content, i, <<"f","u","n","c","t","i","o","n">>)))
                    => /\ DeclaredName(content, i, <<"f","u","n","c","t","i","o","n">>) \in FunctionNames
                       /\ DeclaredName(content, i, <<"f","u","n","c","t","i","o","n">>) \in Range(envelope.jsx_components)
           /\ \A i \in 1..Len(content) :
                 (/\ IsConstBindingAt(content, i)
                  /\ IsUpperCaseName(DeclaredName(content, i, <<"c","o","n","s","t">>)))
                    => /\ DeclaredName(content, i, <<"c","o","n","s","t">>) \in Range(envelope.constants)
                       /\ DeclaredName(content, i, <<"c","o","n","s","t">>) \in Range(envelope.jsx_components)

\* a capitalized function and an upper-case constant have each been reported
\* in two fields
C26_Witness ==
    /\ ReturnedBy("analyze_javascript")
    /\ content = <<"f","u","n","c","t","i","o","n"," ","N","a","m","e","(","a",")"," ","{","}","\n","c","o","n","s","t"," ","N","A","M","E"," ","="," ","1","\n">>
    /\ <<"N","a","m","e">> \in FunctionNames
    /\ <<"N","A","M","E">> \in Range(envelope.constants)
    /\ {<<"N","a","m","e">>, <<"N","A","M","E">>} \subseteq Range(envelope.jsx_components)

\* C27: every envelope analyze returns, error envelopes included, carries the
\* input path character for character, and the same content dispatched
\* again under the envelope's file_path returns the same envelope.
C27_PathEchoedAndRedispatchSame ==
    /\ pc = "returned" => envelope.file_path = file_path
    /\ (Ended /\ previous.pc # "none")
          => (exception = "none" /\ envelope = previous.envelope)

\* a path in upper case has been echoed as it is and dispatched as a script
\* twice
C27_Witness ==
    /\ pc = "returned"
    /\ previous.pc = "returned"
    /\ file_path = <<"a",".","T","S","X">>
    /\ envelope.file_path = <<"a",".","T","S","X">>
    /\ envelope.file_type = "javascript"
    /\ content = <<"e","x","p","o","r","t"," ","f","u","n","c","t","i","o","n"," ","u","s","e","T","h","i","n","g","(",")"," ","{","}">>

\* C28: in every SQL envelope, when tables_created is not empty,
\* statement_types contains 'CREATE TABLE', also for CREATE TEMP or
\* TEMPORARY TABLE, CREATE OR REPLACE TABLE, and keywords with more than one
\* white-space character between them.
C28_CreatedTablesHaveCreateStatement ==
    ReturnedBy("analyze_sql")
        => (envelope.tables_created # <<>>
               => <<"C","R","E","A","T","E"," ","T","A","B","L","E">> \in Range(envelope.statement_types))

\* C29: every function of the script envelope has is_async false, no
\* docstring, no decorators and no return type, also when it is declared
\* `async function` or bound to `async (...) =>`.
C29_ScriptFunctionsCarryNoExtras ==
    ReturnedBy("analyze_javascript")
        => \A k \in 1..Len(envelope.functions) :
              /\ envelope.functions[k].is_async = FALSE
              /\ envelope.functions[k].docstring = None
              /\ envelope.functions[k].decorators = <<>>
              /\ envelope.functions[k].returns = None

\* an async declaration and an async arrow binding have been recorded
C29_Witness ==
    /\ ReturnedBy("analyze_javascript")
    /\ content = <<"a","s","y","n","c"," ","f","u","n","c","t","i","o","n"," ","g","("," ","x"," ",",",","," ","y"," ",")"," ","{","}","\n","l","e","t"," ","m"," ","="," ","a","s","y","n","c"," ","(",")"," ","=",">"," ","1","\n">>
    /\ Len(envelope.functions) = 2
    /\ envelope.functions[1].name = <<"g">>
    /\ envelope.functions[2].name = <<"m">>
    /\ ~envelope.functions[1].is_async
    /\ ~envelope.functions[2].is_async

\* the extension gate of the files API lets the path through
GateAccepts(path) == get_file_type(path) # None

\* the dispatcher has an analyzer for the path
DispatcherRecognises(path) == analyze(<<>>, path, hash_seed).ret.file_type # "unknown"

\* the handler takes the file type from the path, not from the row
TypeFromPath == document = NoDocument \/ document.file_type \in {None, Some("")}

\* C30: get_file_type returns a type for exactly the paths for which analyze
\* does not return the unsupported-type envelope; a handler that takes the
\* type from the path rejects an unsupported path before it calls the
\* analyzer, and never answers with an 'unknown' envelope.
C30_GateAndDispatcherAgree ==
    /\ GateAccepts(file_path) <=> DispatcherRecognises(file_path)
    /\ (pc = "raised" /\ exception \in {"HTTPException 400", "HTTPException 404"})
          => analyzer = "none"
    /\ (TypeFromPath /\ Ended /\ ~DispatcherRecognises(file_path))
          => (pc = "raised" /\ exception \in {"HTTPException 400", "HTTPException 404"})
    /\ (TypeFromPath /\ pc = "returned")
          => (analyzer = "analyze" /\ envelope.analysis.file_type # "unknown")

\* a path the dispatcher has no analyzer for has been rejected at the gate
C30_Witness ==
    /\ document = NoDocument
    /\ file_path = <<"a",".","p","y","c">>
    /\ pc = "raised"
    /\ exception = "HTTPException 400"
    /\ analyzer = "none"

====
